---------------------------- MODULE Spec2Model ----------------------------
(***************************************************************************)
(* Permission / authorization core and credential service of the HRIS      *)
(* services.                                                               *)
(*                                                                         *)
(*   - packages/contracts/src/types/permission.types.ts                    *)
(*       parsePermission, matchesPermission                                *)
(*   - packages/common/src/guards/permissions.guard.ts                     *)
(*       PermissionsGuard.canActivate, hasPermission, validateScope,       *)
(*       getResourceId, checkRoles                                         *)
(*   - apps/auth-service/src/modules/auth/auth.service.ts                  *)
(*       AuthService.register, login, refresh, logout,                     *)
(*       getUserPermissions, getUserRoles, generateToken,                  *)
(*       generateRefreshToken                                              *)
(*   - packages/common/src/interceptors/transform.interceptor.ts           *)
(*       JwtStrategy.validate                                              *)
(*                                                                         *)
(* A permission string is a finite sequence of symbols.  The symbol ":"    *)
(* is the separator that String.prototype.split(':') cuts on; every other  *)
(* symbol stands for a piece of text without a colon ("employee", "read",  *)
(* "own", "*", ...).  A segment is the sequence of symbols between two     *)
(* separators, and two segments are equal when they are the same sequence. *)
(*                                                                         *)
(* Seven specifications are defined:                                       *)
(*   SpecMatch  the pure function matchesPermission applied to every pair  *)
(*              of strings of at most MaxLen symbols;                      *)
(*   SpecParse  the pure function parsePermission applied to every string  *)
(*              of at most MaxLen symbols;                                 *)
(*   Spec       PermissionsGuard.canActivate run on one request;           *)
(*   SpecAuth   AuthService called on one database;                        *)
(*   SpecRegister    AuthService.register called by concurrent clients,    *)
(*              one step per database access;                              *)
(*   SpecAuthFaults  AuthService.login on a database that refuses the      *)
(*              writes to some of its tables;                              *)
(*   SpecAuthSteps   login, refresh and logout called by concurrent        *)
(*              clients, one step per await on the database.               *)
(***************************************************************************)
EXTENDS Integers, Sequences, FiniteSets, TLC

VARIABLES
    matchRequired,   \* matchesPermission: the argument `required`
    matchHeld,       \* matchesPermission: the argument `userPermission` (held)
    matchResult,     \* "idle" before the call, then "true" / "false"
    parseResult,     \* parsePermission(matchRequired), once it has been called
    meta,            \* what the Reflector returns for the handler
    httpRequest,     \* the request: request.user and request.params
    pc,              \* position inside canActivate
    outcome,         \* "pending", "allow", or the message of the exception thrown
    evaluated,       \* the hasPermission calls made so far, in order
    prisma,          \* the auth database: users, role assignments, refresh tokens, login history
    clock,           \* the current time, what Date.now() / new Date() return
    configService,   \* the configuration values AuthService reads
    lastCall,        \* the AuthService call that completed last: arguments, result, database before it
    issued,          \* the token pairs login has returned to clients
    loggedOut,       \* the refresh tokens whose owner has completed a logout with them
    failing,         \* the tables of the auth database whose writes fail at present
    inFlight         \* per client, the AuthService call it has in progress

vars == <<matchRequired, matchHeld, matchResult, parseResult, meta, httpRequest, pc, outcome, evaluated,
          prisma, clock, configService, lastCall, issued, loggedOut, failing, inFlight>>

matchVars == <<matchRequired, matchHeld, matchResult, parseResult>>
guardVars == <<meta, httpRequest, pc, outcome, evaluated>>
authVars == <<prisma, clock, configService, lastCall, issued, loggedOut, failing, inFlight>>

(***************************************************************************)
(* Bounds                                                                  *)
(***************************************************************************)
\* longest string given to matchesPermission in SpecMatch
MaxLen == 5

(***************************************************************************)
(* Strings                                                                 *)
(***************************************************************************)
Colon == ":"
Star == "*"

\* PERMISSIONS.SUPER_ADMIN, the text "*:*:*"
SUPER_ADMIN == <<Star, Colon, Star, Colon, Star>>

\* all strings of at most n symbols over the alphabet A
StringsUpTo(A, n) == UNION {[1..k -> A] : k \in 0..n}

\* String.prototype.split(':'): the segments between the separators, in
\* order; a string without separator (the empty one included) gives one
\* segment, a leading, trailing or doubled separator gives an empty segment.
RECURSIVE SplitFrom(_, _, _)
SplitFrom(s, i, cur) ==
    IF i > Len(s) THEN <<cur>>
    ELSE IF s[i] = Colon THEN <<cur>> \o SplitFrom(s, i + 1, <<>>)
    ELSE SplitFrom(s, i + 1, Append(cur, s[i]))

split(s) == SplitFrom(s, 1, <<>>)

(***************************************************************************)
(* permission.types.ts                                                     *)
(***************************************************************************)
NullPermission == [isNull |-> TRUE, resource |-> <<>>, action |-> <<>>, scope |-> <<>>]

parsePermission(permission) ==
    LET parts == split(permission) IN
    IF Len(parts) # 3 THEN NullPermission
    ELSE [isNull |-> FALSE, resource |-> parts[1], action |-> parts[2], scope |-> parts[3]]

\* faulty variant: the `continue` on a held wildcard is missing (segments must be equal)
MatchLoopNoWildcard(requiredParts, userParts, i) ==
    \A k \in i..3 : requiredParts[k] = userParts[k]

\* faulty variant: the wildcard is honoured on the required side instead of the held side
MatchLoopWildcardOnRequired(requiredParts, userParts, i) ==
    \A k \in i..3 : requiredParts[k] = <<Star>> \/ requiredParts[k] = userParts[k]

\* the for loop of matchesPermission from index i on (1-based here)
RECURSIVE MatchLoop(_, _, _)
MatchLoop(requiredParts, userParts, i) ==
    IF i > 3 THEN TRUE
    ELSE IF userParts[i] = <<Star>> THEN MatchLoop(requiredParts, userParts, i + 1)
    ELSE IF requiredParts[i] # userParts[i] THEN FALSE
    ELSE MatchLoop(requiredParts, userParts, i + 1)

\* faulty variant: the length test looks at the required string only
matchesPermissionNoHeldLengthCheck(required, userPermission) ==
    LET requiredParts == split(required)
        userParts == split(userPermission)
    IN  IF Len(requiredParts) # 3 THEN FALSE
        ELSE \A k \in 1..3 :
                k <= Len(userParts) =>
                    (userParts[k] = <<Star>> \/ requiredParts[k] = userParts[k])

matchesPermission(required, userPermission) ==
    LET requiredParts == split(required)
        userParts == split(userPermission)
    IN  IF Len(requiredParts) # 3 \/ Len(userParts) # 3 THEN FALSE
        ELSE MatchLoop(requiredParts, userParts, 1)

(***************************************************************************)
(* JavaScript values                                                       *)
(***************************************************************************)
\* `undefined` where a string is expected
Undefined == "undefined"

\* a string is falsy when it is undefined or empty
Falsy(str) == str = Undefined \/ str = ""

\* an array that may be undefined
UndefinedList == [defined |-> FALSE, items |-> <<>>]
List(items) == [defined |-> TRUE, items |-> items]

\* `!list || list.length === 0`
IsMissingOrEmpty(list) == ~list.defined \/ Len(list.items) = 0

(***************************************************************************)
(* permissions.guard.ts                                                    *)
(***************************************************************************)
Allow == "allow"
UserNotAuthenticated == "User not authenticated"
InsufficientRole == "Insufficient role"
InsufficientPermissions == "Insufficient permissions"
CannotAccessOthers == "Cannot access resources owned by others"

\* request.user when the request carries none
NoUser ==
    [present |-> FALSE, sub |-> Undefined, roles |-> UndefinedList,
     permissions |-> {}, employeeId |-> Undefined]

\* request.params when the request carries none (`request.params || {}`)
NoParams ==
    [defined |-> FALSE, id |-> Undefined, userId |-> Undefined,
     employeeId |-> Undefined, resourceId |-> Undefined]

\* faulty variant: the parameters are looked up in the opposite order
getResourceIdReversed(request) ==
    LET params == IF request.params.defined THEN request.params ELSE NoParams IN
    IF ~Falsy(params.resourceId) THEN params.resourceId
    ELSE IF ~Falsy(params.employeeId) THEN params.employeeId
    ELSE IF ~Falsy(params.userId) THEN params.userId
    ELSE params.id

\* params.id || params.userId || params.employeeId || params.resourceId
getResourceId(request) ==
    LET params == IF request.params.defined THEN request.params ELSE NoParams IN
    IF ~Falsy(params.id) THEN params.id
    ELSE IF ~Falsy(params.userId) THEN params.userId
    ELSE IF ~Falsy(params.employeeId) THEN params.employeeId
    ELSE params.resourceId

\* faulty variant: scope 'own' is refused when the request names no resource
validateScopeOwnNeedsId(permission, user, request) ==
    LET parsed == parsePermission(permission) IN
    IF parsed.isNull THEN "false"
    ELSE IF parsed.scope = <<"all">> THEN "true"
    ELSE IF parsed.scope = <<"department">> THEN "true"
    ELSE IF parsed.scope = <<"own">> THEN
        LET resourceId == getResourceId(request) IN
        IF Falsy(resourceId) THEN CannotAccessOthers
        ELSE IF resourceId = user.employeeId THEN "true"
        ELSE IF resourceId = user.sub THEN "true"
        ELSE CannotAccessOthers
    ELSE "true"

\* The result of validateScope and of hasPermission: "true", "false", or
\* the message of the ForbiddenException thrown out of it.
validateScope(permission, user, request) ==
    LET parsed == parsePermission(permission) IN
    IF parsed.isNull THEN "false"
    ELSE IF parsed.scope = <<"all">> THEN "true"
    ELSE IF parsed.scope = <<"department">> THEN "true"
    ELSE IF parsed.scope = <<"own">> THEN
        LET resourceId == getResourceId(request) IN
        IF Falsy(resourceId) THEN "true"
        ELSE IF resourceId = user.employeeId THEN "true"
        ELSE IF resourceId = user.sub THEN "true"
        ELSE CannotAccessOthers
    ELSE "true"

\* faulty variant: a required permission the caller holds literally passes
\* without scope validation
hasPermissionExactIsEnough(required, userPermissions, user, request) ==
    IF required \in userPermissions THEN "true"
    ELSE IF \E userPerm \in userPermissions : matchesPermission(required, userPerm)
         THEN validateScope(required, user, request)
    ELSE "false"

\* userPermissions is the Set built from user.permissions: the loop over it
\* returns validateScope(required, ...) at the first held permission that
\* matches, whichever one that is.
hasPermission(required, userPermissions, user, request) ==
    IF required \in userPermissions THEN validateScope(required, user, request)
    ELSE IF \E userPerm \in userPermissions : matchesPermission(required, userPerm)
         THEN validateScope(required, user, request)
    ELSE "false"

\* faulty variant: `every` in place of `some` (all the required roles are demanded)
checkRolesEvery(user, requiredRoles) ==
    IF ~user.roles.defined \/ Len(user.roles.items) = 0 THEN FALSE
    ELSE \A i \in 1..Len(requiredRoles) :
            \E j \in 1..Len(user.roles.items) : requiredRoles[i] = user.roles.items[j]

checkRoles(user, requiredRoles) ==
    IF ~user.roles.defined \/ Len(user.roles.items) = 0 THEN FALSE
    ELSE \E i \in 1..Len(requiredRoles) :
            \E j \in 1..Len(user.roles.items) : requiredRoles[i] = user.roles.items[j]

\* Array.prototype.some over the ANY list: it stops after the first call
\* that returns true, and a call that throws ends it.
RECURSIVE SomeCalls(_, _, _, _)
SomeCalls(list, userPermissions, user, request) ==
    IF list = <<>> THEN <<>>
    ELSE LET r == hasPermission(Head(list), userPermissions, user, request) IN
         <<[key |-> "any", required |-> Head(list), result |-> r]>>
            \o (IF r = "false"
                THEN SomeCalls(Tail(list), userPermissions, user, request)
                ELSE <<>>)

\* faulty variant: the ALL list is run with `some` (it stops at the first true)
EveryCallsAsSome(list, userPermissions, user, request) ==
    SomeCalls(list, userPermissions, user, request)

\* Array.prototype.every over the ALL list: the calls of hasPermission it
\* makes, in order.  It stops after the first call that returns false, and a
\* call that throws ends it.
RECURSIVE EveryCalls(_, _, _, _)
EveryCalls(list, userPermissions, user, request) ==
    IF list = <<>> THEN <<>>
    ELSE LET r == hasPermission(Head(list), userPermissions, user, request) IN
         <<[key |-> "all", required |-> Head(list), result |-> r]>>
            \o (IF r = "true"
                THEN EveryCalls(Tail(list), userPermissions, user, request)
                ELSE <<>>)

\* what the last call of a non-empty run of calls gave
LastResult(calls) == calls[Len(calls)].result

(***************************************************************************)
(* SpecMatch: matchesPermission on every pair of bounded strings           *)
(***************************************************************************)
MatchAlphabet == {"a", Star, Colon}
MatchStrings == StringsUpTo(MatchAlphabet, MaxLen)

IdleMeta ==
    [skipCheck |-> FALSE, anyPermissions |-> UndefinedList,
     allPermissions |-> UndefinedList, requiredRoles |-> UndefinedList]
IdleRequest == [user |-> NoUser, params |-> NoParams]

GuardIdle ==
    /\ meta = IdleMeta
    /\ httpRequest = IdleRequest
    /\ pc = "idle"
    /\ outcome = "idle"
    /\ evaluated = <<>>

\* no AuthService call is made in this specification
AuthIdle ==
    /\ prisma = [users |-> {}, userRoles |-> <<>>, refreshTokens |-> <<>>, loginHistory |-> <<>>]
    /\ clock = 0
    /\ configService = [JWT_EXPIRES_IN |-> 0, JWT_REFRESH_EXPIRES_IN |-> 0]
    /\ lastCall = [op |-> "none"]
    /\ issued = {}
    /\ loggedOut = {}
    /\ failing = {}
    /\ inFlight = <<>>

\* parsePermission has not been called
NotParsed == [called |-> FALSE, value |-> NullPermission]

InitMatch ==
    /\ matchRequired \in MatchStrings
    /\ matchHeld \in MatchStrings
    /\ matchResult = "idle"
    /\ parseResult = NotParsed
    /\ GuardIdle
    /\ AuthIdle

Match ==
    /\ matchResult = "idle"
    /\ matchResult' = IF matchesPermission(matchRequired, matchHeld) THEN "true" ELSE "false"
    /\ UNCHANGED <<matchRequired, matchHeld, parseResult, guardVars, authVars>>

NextMatch == Match

SpecMatch == InitMatch /\ [][NextMatch]_vars

(***************************************************************************)
(* SpecParse: parsePermission on every bounded string                      *)
(***************************************************************************)
InitParse ==
    /\ matchRequired \in MatchStrings
    /\ matchHeld = <<>>
    /\ matchResult = "idle"
    /\ parseResult = NotParsed
    /\ GuardIdle
    /\ AuthIdle

Parse ==
    /\ ~parseResult.called
    /\ parseResult' = [called |-> TRUE, value |-> parsePermission(matchRequired)]
    /\ UNCHANGED <<matchRequired, matchHeld, matchResult, guardVars, authVars>>

NextParse == Parse

SpecParse == InitParse /\ [][NextParse]_vars

(***************************************************************************)
(* Spec: PermissionsGuard.canActivate on one request                       *)
(*                                                                         *)
(* Init draws the handler's metadata and the request; the actions are the  *)
(* consecutive steps of canActivate.  A step that returns or throws sets   *)
(* outcome and moves to "done".                                            *)
(***************************************************************************)
\* the ALL list and the ANY list of a handler hold at most this many
\* permissions together
MaxDeclared == 2

Perm(resource, action, scope) == <<resource, Colon, action, Colon, scope>>

EMPLOYEE_READ_OWN == Perm("employee", "read", "own")
EMPLOYEE_READ_DEPARTMENT == Perm("employee", "read", "department")
EMPLOYEE_READ_ALL == Perm("employee", "read", "all")
\* a text that does not split into three segments
MalformedPermission == <<"employee", Colon, "read">>

\* the permissions a handler may declare
DeclaredPermissions ==
    {EMPLOYEE_READ_OWN, EMPLOYEE_READ_DEPARTMENT, EMPLOYEE_READ_ALL, MalformedPermission}

\* the permissions a token may carry
HeldPermissions ==
    {EMPLOYEE_READ_OWN, EMPLOYEE_READ_ALL, SUPER_ADMIN, MalformedPermission}

PermissionLists ==
    {UndefinedList} \cup {List(l) : l \in StringsUpTo(DeclaredPermissions, MaxDeclared)}

RoleLists ==
    {UndefinedList, List(<<>>), List(<<"super_admin", "hr_admin">>)}

Metas ==
    {m \in [skipCheck : BOOLEAN, anyPermissions : PermissionLists,
            allPermissions : PermissionLists, requiredRoles : RoleLists] :
        Len(m.anyPermissions.items) + Len(m.allPermissions.items) <= MaxDeclared}

AuthenticatedUser(sub, roles, permissions, employeeId) ==
    [present |-> TRUE, sub |-> sub, roles |-> roles,
     permissions |-> permissions, employeeId |-> employeeId]

Users ==
    {NoUser,
     AuthenticatedUser("", List(<<"hr_admin">>), {SUPER_ADMIN}, "E1"),
     AuthenticatedUser(Undefined, List(<<"employee">>), {EMPLOYEE_READ_ALL}, "E1"),
     AuthenticatedUser("U1", UndefinedList, {EMPLOYEE_READ_OWN}, Undefined),
     AuthenticatedUser("U1", List(<<>>), {EMPLOYEE_READ_OWN, EMPLOYEE_READ_ALL}, "E1"),
     AuthenticatedUser("U1", List(<<"employee">>), {EMPLOYEE_READ_OWN}, "E1")}
    \cup {AuthenticatedUser("U1", List(<<"employee", "hr_admin">>), ps, "E1") :
            ps \in SUBSET HeldPermissions}

Params(id, userId, employeeId, resourceId) ==
    [defined |-> TRUE, id |-> id, userId |-> userId,
     employeeId |-> employeeId, resourceId |-> resourceId]

ParamSets ==
    {NoParams,
     Params("E1", Undefined, Undefined, Undefined),
     Params("E2", Undefined, Undefined, Undefined),
     Params("U1", Undefined, Undefined, Undefined),
     Params("", "E1", Undefined, "E2"),
     Params(Undefined, Undefined, "E2", "E1")}

MatchIdle ==
    /\ matchRequired = <<>>
    /\ matchHeld = <<>>
    /\ matchResult = "idle"
    /\ parseResult = NotParsed

Init ==
    /\ meta \in Metas
    /\ httpRequest \in [user : Users, params : ParamSets]
    /\ pc = "skipCheck"
    /\ outcome = "pending"
    /\ evaluated = <<>>
    /\ MatchIdle
    /\ AuthIdle

Return(result) ==
    /\ outcome' = result
    /\ pc' = "done"

\* lines 31-40: the skip marking
CheckSkip ==
    /\ pc = "skipCheck"
    /\ IF meta.skipCheck
       THEN Return(Allow)
       ELSE pc' = "requirements" /\ UNCHANGED outcome
    /\ UNCHANGED <<meta, httpRequest, evaluated, matchVars, authVars>>

\* faulty variant: the `length === 0` tests are missing (an empty list counts as a
\* requirement)
CheckRequirementsIgnoringEmpty ==
    /\ pc = "requirements"
    /\ IF /\ ~meta.anyPermissions.defined
          /\ ~meta.allPermissions.defined
          /\ ~meta.requiredRoles.defined
       THEN Return(Allow)
       ELSE pc' = "user" /\ UNCHANGED outcome
    /\ UNCHANGED <<meta, httpRequest, evaluated, matchVars, authVars>>

\* lines 42-68: nothing required
CheckRequirements ==
    /\ pc = "requirements"
    /\ IF /\ IsMissingOrEmpty(meta.anyPermissions)
          /\ IsMissingOrEmpty(meta.allPermissions)
          /\ IsMissingOrEmpty(meta.requiredRoles)
       THEN Return(Allow)
       ELSE pc' = "user" /\ UNCHANGED outcome
    /\ UNCHANGED <<meta, httpRequest, evaluated, matchVars, authVars>>

\* faulty variant: `!user` in place of `!user?.sub`
CheckUserPresentOnly ==
    /\ pc = "user"
    /\ IF ~httpRequest.user.present
       THEN Return(UserNotAuthenticated)
       ELSE pc' = "roles" /\ UNCHANGED outcome
    /\ UNCHANGED <<meta, httpRequest, evaluated, matchVars, authVars>>

\* lines 70-77: `!user?.sub`
CheckUser ==
    /\ pc = "user"
    /\ IF ~httpRequest.user.present \/ Falsy(httpRequest.user.sub)
       THEN Return(UserNotAuthenticated)
       ELSE pc' = "roles" /\ UNCHANGED outcome
    /\ UNCHANGED <<meta, httpRequest, evaluated, matchVars, authVars>>

\* lines 79-89: the required roles
CheckRequiredRoles ==
    /\ pc = "roles"
    /\ IF /\ ~IsMissingOrEmpty(meta.requiredRoles)
          /\ ~checkRoles(httpRequest.user, meta.requiredRoles.items)
       THEN Return(InsufficientRole)
       ELSE pc' = "allPermissions" /\ UNCHANGED outcome
    /\ UNCHANGED <<meta, httpRequest, evaluated, matchVars, authVars>>

\* faulty variant: a failing ALL list does not end the check, the ANY list
\* decides
CheckAllPermissionsNotFatal ==
    /\ pc = "allPermissions"
    /\ IF IsMissingOrEmpty(meta.allPermissions)
       THEN pc' = "anyPermissions" /\ UNCHANGED <<outcome, evaluated>>
       ELSE LET calls == EveryCalls(meta.allPermissions.items,
                                    httpRequest.user.permissions,
                                    httpRequest.user, httpRequest)
            IN  /\ evaluated' = evaluated \o calls
                /\ IF LastResult(calls) \in {"true", "false"}
                   THEN pc' = "anyPermissions" /\ UNCHANGED outcome
                   ELSE Return(LastResult(calls))
    /\ UNCHANGED <<meta, httpRequest, matchVars, authVars>>

\* lines 91-106: the ALL list
CheckAllPermissions ==
    /\ pc = "allPermissions"
    /\ IF IsMissingOrEmpty(meta.allPermissions)
       THEN pc' = "anyPermissions" /\ UNCHANGED <<outcome, evaluated>>
       ELSE LET calls == EveryCalls(meta.allPermissions.items,
                                    httpRequest.user.permissions,
                                    httpRequest.user, httpRequest)
            IN  /\ evaluated' = evaluated \o calls
                /\ IF LastResult(calls) = "true"
                   THEN pc' = "anyPermissions" /\ UNCHANGED outcome
                   ELSE IF LastResult(calls) = "false"
                   THEN Return(InsufficientPermissions)
                   ELSE Return(LastResult(calls))
    /\ UNCHANGED <<meta, httpRequest, matchVars, authVars>>

\* lines 108-124: the ANY list, then `return true`
CheckAnyPermissions ==
    /\ pc = "anyPermissions"
    /\ IF IsMissingOrEmpty(meta.anyPermissions)
       THEN Return(Allow) /\ UNCHANGED evaluated
       ELSE LET calls == SomeCalls(meta.anyPermissions.items,
                                   httpRequest.user.permissions,
                                   httpRequest.user, httpRequest)
            IN  /\ evaluated' = evaluated \o calls
                /\ IF LastResult(calls) = "true"
                   THEN Return(Allow)
                   ELSE IF LastResult(calls) = "false"
                   THEN Return(InsufficientPermissions)
                   ELSE Return(LastResult(calls))
    /\ UNCHANGED <<meta, httpRequest, matchVars, authVars>>

Next ==
    \/ CheckSkip
    \/ CheckRequirements
    \/ CheckUser
    \/ CheckRequiredRoles
    \/ CheckAllPermissions
    \/ CheckAnyPermissions

Spec == Init /\ [][Next]_vars

(***************************************************************************)
(* auth.service.ts: the stored data and the libraries                      *)
(*                                                                         *)
(* Time is counted in ticks; Date.now(), new Date() and the JWT clock all  *)
(* read the variable clock.  A JWT is the record of what its text encodes: *)
(* the payload, the iat and exp claims that signing adds, and the secret   *)
(* its signature was made with.                                            *)
(***************************************************************************)
\* `7 * 24 * 60 * 60 * 1000` ms and the JWT default '7d', in ticks
SevenDays == 2
\* the JWT default '15m', in ticks (shorter than SevenDays)
FifteenMinutes == 1

\* a nullable DateTime column that holds null
NullDate == -1

\* bcrypt.hash(password, 12) and bcrypt.compare(password, passwordHash)
bcryptHash(password) == <<"$2b$12$", password>>
bcryptCompare(password, passwordHash) == passwordHash = bcryptHash(password)

\* a row of the table permissions; the column scope is nullable
PermissionRow(resource, action, scope) ==
    [resource |-> resource, action |-> action, scope |-> scope]

\* role_permissions joined with permissions: the permissions a role owns
RolePermissions(roleName) ==
    IF roleName = "employee"
    THEN <<PermissionRow("employee", "read", "own"),
           PermissionRow("leave", "create", Undefined)>>
    ELSE IF roleName = "manager"
    THEN <<PermissionRow("employee", "read", "own"),
           PermissionRow("employee", "read", "department")>>
    ELSE <<>>

\* the roles the administration assigns and removes; every account keeps
\* the role employee
GrantableRoles == {"manager"}

\* a row of the table users
UserRow(id, email, isActive, isSuspended) ==
    [id |-> id, email |-> email, username |-> id,
     passwordHash |-> bcryptHash("Admin123"),
     isActive |-> isActive, isSuspended |-> isSuspended,
     lastLoginAt |-> NullDate]

\* the secret of the service, configService.getOrThrow('JWT_SECRET')
JWT_SECRET == "JWT_SECRET"

\* the payload of a token; a refresh token has no permissions, roles or type
Payload(sub, email, permissions, roles, type) ==
    [sub |-> sub, email |-> email, permissions |-> permissions,
     roles |-> roles, type |-> type]

\* the empty or undefined token string
NoToken ==
    [payload |-> Payload(Undefined, Undefined, UndefinedList, UndefinedList, Undefined),
     iat |-> 0, exp |-> 0, secret |-> Undefined]

\* jwtService.signAsync(payload, {expiresIn})
signAsync(payload, expiresIn, now) ==
    [payload |-> payload, iat |-> now, exp |-> now + expiresIn,
     secret |-> JWT_SECRET]

\* jwtService.verify(token, {secret}): "" when the token verifies, else the
\* message of the error thrown
verify(token, now) ==
    IF token = NoToken THEN "jwt must be provided"
    ELSE IF token.secret # JWT_SECRET THEN "invalid signature"
    ELSE IF now >= token.exp THEN "jwt expired"
    ELSE ""

\* faulty variant: an array push, which keeps duplicates
SetAddAsPush(items, item) == Append(items, item)

\* Set.add on a Set kept in insertion order
SetAdd(items, item) ==
    IF \E i \in 1..Len(items) : items[i] = item THEN items
    ELSE Append(items, item)

\* `${resource}:${action}:${scope || 'all'}`
PermissionString(permission) ==
    Perm(permission.resource, permission.action,
         IF Falsy(permission.scope) THEN "all" ELSE permission.scope)

\* prisma.user.findUnique({where: {id}}): the set of rows found
userFindUniqueById(db, userId) == {u \in db.users : u.id = userId}
\* prisma.user.findUnique({where: {email}})
userFindUniqueByEmail(db, email) == {u \in db.users : u.email = email}
\* the included relation user.roles: the user_roles rows of the user
rolesOfUser(db, userId) == SelectSeq(db.userRoles, LAMBDA ur : ur.userId = userId)

\* the inner forEach of getUserPermissions: one role's permissions added
RECURSIVE AddRolePermissions(_, _, _)
AddRolePermissions(permissionSet, rolePermissions, i) ==
    IF i > Len(rolePermissions) THEN permissionSet
    ELSE AddRolePermissions(SetAdd(permissionSet, PermissionString(rolePermissions[i])),
                            rolePermissions, i + 1)

\* the outer forEach of getUserPermissions
RECURSIVE AddUserRoles(_, _, _)
AddUserRoles(permissionSet, userRoles, i) ==
    IF i > Len(userRoles) THEN permissionSet
    ELSE AddUserRoles(AddRolePermissions(permissionSet,
                                         RolePermissions(userRoles[i].roleName), 1),
                      userRoles, i + 1)

getUserPermissions(db, userId) ==
    IF userFindUniqueById(db, userId) = {} THEN <<>>
    ELSE AddUserRoles(<<>>, rolesOfUser(db, userId), 1)

getUserRoles(db, userId) ==
    IF userFindUniqueById(db, userId) = {} THEN <<>>
    ELSE LET userRoles == rolesOfUser(db, userId) IN
         [i \in 1..Len(userRoles) |-> userRoles[i].roleName]

\* configService.get(key) || fallback; an unset key reads 0
ConfigOr(value, fallback) == IF value = 0 THEN fallback ELSE value

generateToken(cfg, now, userId, email, permissions, roles) ==
    signAsync(Payload(userId, email, List(permissions), List(roles), "access"),
              ConfigOr(cfg.JWT_EXPIRES_IN, FifteenMinutes), now)

generateRefreshToken(cfg, now, userId, email) ==
    signAsync(Payload(userId, email, UndefinedList, UndefinedList, Undefined),
              ConfigOr(cfg.JWT_REFRESH_EXPIRES_IN, SevenDays), now)

\* prisma.loginHistory.create
loginHistoryCreate(db, userId, status, failReason) ==
    [db EXCEPT !.loginHistory =
        Append(@, [userId |-> userId, status |-> status, failReason |-> failReason])]

\* prisma.refreshToken.findUnique({where: {token}})
refreshTokenFindUnique(db, token) ==
    {i \in 1..Len(db.refreshTokens) : db.refreshTokens[i].token = token}

\* faulty variant: the session expires at the time it is created
refreshTokenCreateExpiringNow(db, userId, token, expiresAt, now) ==
    [db EXCEPT !.refreshTokens =
        Append(@, [userId |-> userId, token |-> token, isRevoked |-> FALSE,
                   expiresAt |-> now, createdAt |-> now])]

\* prisma.refreshToken.create; the caller has checked that the token is new
refreshTokenCreate(db, userId, token, expiresAt, now) ==
    [db EXCEPT !.refreshTokens =
        Append(@, [userId |-> userId, token |-> token, isRevoked |-> FALSE,
                   expiresAt |-> expiresAt, createdAt |-> now])]

\* prisma.user.update({where: {id}, data: {lastLoginAt}})
userUpdateLastLogin(db, userId, now) ==
    [db EXCEPT !.users =
        {IF u.id = userId THEN [u EXCEPT !.lastLoginAt = now] ELSE u : u \in @}]

\* faulty variant: the where clause leaves out the owner
refreshTokenRevokeAnyOwner(db, userId, token) ==
    [db EXCEPT !.refreshTokens =
        [i \in 1..Len(@) |->
            IF @[i].token = token
            THEN [@[i] EXCEPT !.isRevoked = TRUE] ELSE @[i]]]

\* faulty variant: the update writes isRevoked: false
refreshTokenRevokeFalse(db, userId, token) ==
    [db EXCEPT !.refreshTokens =
        [i \in 1..Len(@) |->
            IF @[i].token = token /\ @[i].userId = userId
            THEN [@[i] EXCEPT !.isRevoked = FALSE] ELSE @[i]]]

\* prisma.refreshToken.updateMany({where: {token, userId}, data: {isRevoked: true}})
refreshTokenRevoke(db, userId, token) ==
    [db EXCEPT !.refreshTokens =
        [i \in 1..Len(@) |->
            IF @[i].token = token /\ @[i].userId = userId
            THEN [@[i] EXCEPT !.isRevoked = TRUE] ELSE @[i]]]

(***************************************************************************)
(* auth.service.ts: login, refresh, logout                                 *)
(*                                                                         *)
(* Each operation maps the database, the configuration, the time and its   *)
(* arguments to the database it leaves, the error it throws ("" for a      *)
(* normal return) and the value it returns.                                *)
(***************************************************************************)
EmailOrPasswordWrong == "Email or password is wrong"
UserInactiveOrSuspended == "User is incactive or suspended"
InvalidRefreshToken == "Invalid refresh token"
RefreshTokenNotFound == "Refresh token not found"
RefreshTokenRevoked == "Refresh token revoked"
RefreshTokenExpired == "Refresh token expired"
UserNotFound == "User not found"
\* the error of prisma.refreshToken.create when the token is already stored
UniqueConstraintFailed == "Unique constraint failed on the fields: (token)"
NoError == ""

NoSummary ==
    [id |-> Undefined, email |-> Undefined, username |-> Undefined,
     roles |-> <<>>, permissions |-> <<>>]
NoValue == [accessToken |-> NoToken, refreshToken |-> NoToken, user |-> NoSummary]

\* an operation that ends by throwing
Throw(db, message) ==
    [db |-> db, error |-> message, cause |-> message, value |-> NoValue]
\* an operation that ends by returning
Returns(db, value) ==
    [db |-> db, error |-> NoError, cause |-> NoError, value |-> value]

Summary(user, roles, permissions) ==
    [id |-> user.id, email |-> user.email, username |-> user.username,
     roles |-> roles, permissions |-> permissions]

\* faulty variant: the error names the missing account
loginUserMissingRevealed(db) == Throw(db, UserNotFound)

\* login, line 139: no user with this email
loginUserMissing(db) == Throw(db, EmailOrPasswordWrong)

\* faulty variant: the status check comes before the password check
loginChecksStatusFirst(db, user, password) ==
    IF ~user.isActive \/ user.isSuspended
    THEN Throw(db, UserInactiveOrSuspended)
    ELSE IF ~bcryptCompare(password, user.passwordHash)
    THEN Throw(loginHistoryCreate(db, user.id, "FAILED", "Invalid password"),
               EmailOrPasswordWrong)
    ELSE Returns(db, NoValue)

\* faulty variant: a wrong password is rejected without the audit row
loginChecksNoAudit(db, user, password) ==
    IF ~bcryptCompare(password, user.passwordHash)
    THEN Throw(db, EmailOrPasswordWrong)
    ELSE IF ~user.isActive \/ user.isSuspended
    THEN Throw(db, UserInactiveOrSuspended)
    ELSE Returns(db, NoValue)

\* login, lines 141-158: the password check, then the status check
loginChecks(db, user, password) ==
    IF ~bcryptCompare(password, user.passwordHash)
    THEN Throw(loginHistoryCreate(db, user.id, "FAILED", "Invalid password"),
               EmailOrPasswordWrong)
    ELSE IF ~user.isActive \/ user.isSuspended
    THEN Throw(db, UserInactiveOrSuspended)
    ELSE Returns(db, NoValue)

\* login, lines 160-208: the tokens, the three writes and the return value
loginIssue(db, cfg, now, user, email) ==
    LET permissions == getUserPermissions(db, user.id)
        roles == getUserRoles(db, user.id)
        accessToken == generateToken(cfg, now, user.id, email, permissions, roles)
        refreshToken == generateRefreshToken(cfg, now, user.id, email)
    IN
    IF refreshTokenFindUnique(db, refreshToken) # {}
    THEN Throw(db, UniqueConstraintFailed)
    ELSE
    LET db1 == refreshTokenCreate(db, user.id, refreshToken, now + SevenDays, now)
        db2 == loginHistoryCreate(db1, user.id, "SUCCESS", Undefined)
        db3 == userUpdateLastLogin(db2, user.id, now)
    IN Returns(db3, [accessToken |-> accessToken, refreshToken |-> refreshToken,
                     user |-> Summary(user, roles, permissions)])

login(db, cfg, now, email, password) ==
    LET found == userFindUniqueByEmail(db, email) IN
    IF found = {} THEN loginUserMissing(db)
    ELSE
    LET user == CHOOSE u \in found : TRUE
        checked == loginChecks(db, user, password)
    IN
    IF checked.error # NoError THEN checked
    ELSE loginIssue(db, cfg, now, user, email)

\* faulty variant: the claims are the ones of the access token login
\* returned to the account, not aggregated again
refreshClaimsFromLogin(db, sub) ==
    LET pairs == {pair \in issued : pair.accessToken.payload.sub = sub} IN
    IF pairs = {} THEN [permissions |-> <<>>, roles |-> <<>>]
    ELSE LET claims == (CHOOSE pair \in pairs : TRUE).accessToken.payload IN
         [permissions |-> claims.permissions.items, roles |-> claims.roles.items]

\* refresh, lines 233-234: the permissions and roles of the new token
refreshClaims(db, sub) ==
    [permissions |-> getUserPermissions(db, sub), roles |-> getUserRoles(db, sub)]

\* the body of the try block of refresh
refreshTry(db, cfg, now, refreshToken) ==
    IF verify(refreshToken, now) # NoError THEN Throw(db, verify(refreshToken, now))
    ELSE
    LET sub == refreshToken.payload.sub
        found == refreshTokenFindUnique(db, refreshToken)
    IN
    IF found = {} THEN Throw(db, RefreshTokenNotFound)
    ELSE
    LET tokenRecord == db.refreshTokens[CHOOSE i \in found : TRUE] IN
    IF tokenRecord.isRevoked THEN Throw(db, RefreshTokenRevoked)
    ELSE IF tokenRecord.expiresAt < now THEN Throw(db, RefreshTokenExpired)
    ELSE
    LET permissions == refreshClaims(db, sub).permissions
        roles == refreshClaims(db, sub).roles
        users == userFindUniqueById(db, sub)
    IN
    IF users = {} THEN Throw(db, UserNotFound)
    ELSE
    LET user == CHOOSE u \in users : TRUE IN
    Returns(db, [accessToken |-> generateToken(cfg, now, user.id, user.email,
                                               permissions, roles),
                 refreshToken |-> NoToken,
                 user |-> Summary(user, roles, permissions)])

\* faulty variant: a successful refresh revokes the Session it used
refreshRevoking(db, cfg, now, refreshToken) ==
    LET tried == refreshTry(db, cfg, now, refreshToken) IN
    IF tried.error # NoError
    THEN [tried EXCEPT !.error = InvalidRefreshToken]
    ELSE [tried EXCEPT !.db = refreshTokenRevoke(db, refreshToken.payload.sub, refreshToken)]

\* refresh: whatever the try block throws is logged and replaced
refresh(db, cfg, now, refreshToken) ==
    LET tried == refreshTry(db, cfg, now, refreshToken) IN
    IF tried.error # NoError
    THEN [tried EXCEPT !.error = InvalidRefreshToken]
    ELSE tried

logout(db, userId, refreshToken) ==
    IF refreshToken # NoToken
    THEN Returns(refreshTokenRevoke(db, userId, refreshToken), NoValue)
    ELSE Returns(db, NoValue)

(***************************************************************************)
(* JwtStrategy and JwtAuthGuard: from the token of a request to            *)
(* request.user                                                            *)
(***************************************************************************)
InvalidTokenPayload == "Invalid token payload"
AuthenticationRequired == "Authentication required"

\* JwtStrategy.validate: the user built from the payload of a verified
\* token, or the exception thrown.  The user has the fields sub, email and
\* permissions; roles and employeeId of the payload are not copied.
validate(payload) ==
    IF Falsy(payload.sub) \/ Falsy(payload.email)
    THEN [error |-> InvalidTokenPayload, user |-> NoUser]
    ELSE [error |-> NoError,
          user |-> AuthenticatedUser(
                       payload.sub, UndefinedList,
                       IF payload.permissions.defined
                       THEN {payload.permissions.items[i] :
                                i \in 1..Len(payload.permissions.items)}
                       ELSE {},
                       Undefined)]

\* JwtAuthGuard: the strategy verifies signature and expiry with JWT_SECRET
\* (ignoreExpiration: false) and calls validate; handleRequest turns a
\* token that does not verify into 'Authentication required' and an error
\* of validate into a BadRequestException with its message
JwtAuthGuard(token, now) ==
    IF verify(token, now) # NoError
    THEN [error |-> AuthenticationRequired, user |-> NoUser]
    ELSE validate(token.payload)

(***************************************************************************)
(* SpecAuth: AuthService on one database                                   *)
(*                                                                         *)
(* login, refresh and logout run one call at a time, each call from its    *)
(* first statement to its return or throw.  Between calls the clock        *)
(* advances and the account's status and role assignments are changed by   *)
(* the administration.  lastCall records a call from its completion until  *)
(* the clock or the administration moves.                                  *)
(***************************************************************************)
\* the clock stops at this tick
MaxClock == 3
\* login is called while the login history holds fewer rows than this
MaxHistory == 2

Emails == {"admin@hris.com", "nobody@hris.com"}
Passwords == {"Admin123", "admin123"}
UserIds == {"U1", "U2"}

EmptyDb == [users |-> {}, userRoles |-> <<>>, refreshTokens |-> <<>>, loginHistory |-> <<>>]

\* the record kept of a completed call
Call(op, email, password, userId, token, now, db, r) ==
    [op |-> op, email |-> email, password |-> password, userId |-> userId,
     token |-> token, at |-> now, before |-> db,
     error |-> r.error, cause |-> r.cause, value |-> r.value]

NoCall ==
    Call("none", Undefined, Undefined, Undefined, NoToken, 0, EmptyDb,
         Returns(EmptyDb, NoValue))

\* a token signed with a secret that is not the service's
ForgedToken ==
    [signAsync(Payload("U1", "admin@hris.com", UndefinedList, UndefinedList, Undefined),
               SevenDays, 0)
     EXCEPT !.secret = "secret"]

\* the tokens a client can present: the refresh and access tokens login
\* has returned, a forged one and none
PresentableTokens ==
    {pair.refreshToken : pair \in issued} \cup {pair.accessToken : pair \in issued}
        \cup {ForgedToken, NoToken}

\* the tokens logout is called with: the refresh tokens login has returned,
\* one that is not stored and none
LogoutTokens == {pair.refreshToken : pair \in issued} \cup {ForgedToken, NoToken}

InitAuth ==
    /\ prisma \in {[EmptyDb EXCEPT
                       !.users = {UserRow("U1", "admin@hris.com", isActive, FALSE)},
                       !.userRoles = <<[userId |-> "U1", roleName |-> "employee"]>>]
                   : isActive \in BOOLEAN}
    /\ clock = 0
    /\ configService \in {[JWT_EXPIRES_IN |-> 0, JWT_REFRESH_EXPIRES_IN |-> expiresIn]
                          : expiresIn \in {0, SevenDays + 2}}
    /\ lastCall = NoCall
    /\ issued = {}
    /\ loggedOut = {}
    /\ failing = {}
    /\ inFlight = <<>>
    /\ MatchIdle
    /\ GuardIdle

Login(email, password) ==
    /\ Len(prisma.loginHistory) < MaxHistory
    /\ LET r == login(prisma, configService, clock, email, password) IN
       /\ prisma' = r.db
       /\ lastCall' = Call("login", email, password, Undefined, NoToken, clock, prisma, r)
       /\ issued' = IF r.error = NoError
                    THEN issued \cup {[accessToken |-> r.value.accessToken,
                                       refreshToken |-> r.value.refreshToken]}
                    ELSE issued
    /\ UNCHANGED <<clock, configService, loggedOut, failing, inFlight, matchVars, guardVars>>

Refresh(refreshToken) ==
    /\ LET r == refresh(prisma, configService, clock, refreshToken) IN
       /\ prisma' = r.db
       /\ lastCall' = Call("refresh", Undefined, Undefined, Undefined, refreshToken,
                           clock, prisma, r)
    /\ UNCHANGED <<clock, configService, issued, loggedOut, failing, inFlight, matchVars, guardVars>>

Logout(userId, refreshToken) ==
    /\ LET r == logout(prisma, userId, refreshToken) IN
       /\ prisma' = r.db
       /\ lastCall' = Call("logout", Undefined, Undefined, userId, refreshToken,
                           clock, prisma, r)
    /\ loggedOut' = IF \E i \in refreshTokenFindUnique(prisma, refreshToken) :
                          prisma.refreshTokens[i].userId = userId
                    THEN loggedOut \cup {refreshToken}
                    ELSE loggedOut
    /\ UNCHANGED <<clock, configService, issued, failing, inFlight, matchVars, guardVars>>

\* time passes
Tick ==
    /\ clock < MaxClock
    /\ clock' = clock + 1
    /\ lastCall' = NoCall
    /\ UNCHANGED <<prisma, configService, issued, loggedOut, failing, inFlight, matchVars, guardVars>>

\* the administration sets users.is_active / users.is_suspended
SetAccountStatus(userId, isActive, isSuspended) ==
    /\ \E u \in prisma.users :
          u.id = userId /\ <<u.isActive, u.isSuspended>> # <<isActive, isSuspended>>
    /\ prisma' = [prisma EXCEPT !.users =
                    {IF u.id = userId
                     THEN [u EXCEPT !.isActive = isActive, !.isSuspended = isSuspended]
                     ELSE u : u \in @}]
    /\ lastCall' = NoCall
    /\ UNCHANGED <<clock, configService, issued, loggedOut, failing, inFlight, matchVars, guardVars>>

\* the administration inserts a user_roles row (unique on user and role)
AssignRole(userId, roleName) ==
    /\ \E u \in prisma.users : u.id = userId
    /\ ~\E i \in 1..Len(prisma.userRoles) :
          prisma.userRoles[i] = [userId |-> userId, roleName |-> roleName]
    /\ prisma' = [prisma EXCEPT !.userRoles =
                    Append(@, [userId |-> userId, roleName |-> roleName])]
    /\ lastCall' = NoCall
    /\ UNCHANGED <<clock, configService, issued, loggedOut, failing, inFlight, matchVars, guardVars>>

\* the administration deletes a user_roles row
RemoveRole(userId, roleName) ==
    /\ \E i \in 1..Len(prisma.userRoles) :
          prisma.userRoles[i] = [userId |-> userId, roleName |-> roleName]
    /\ prisma' = [prisma EXCEPT !.userRoles =
                    SelectSeq(@, LAMBDA ur : ur # [userId |-> userId, roleName |-> roleName])]
    /\ lastCall' = NoCall
    /\ UNCHANGED <<clock, configService, issued, loggedOut, failing, inFlight, matchVars, guardVars>>

NextAuth ==
    \/ \E email \in Emails, password \in Passwords : Login(email, password)
    \/ \E refreshToken \in PresentableTokens : Refresh(refreshToken)
    \/ \E userId \in UserIds, refreshToken \in LogoutTokens : Logout(userId, refreshToken)
    \/ Tick
    \/ \E isActive, isSuspended \in BOOLEAN : SetAccountStatus("U1", isActive, isSuspended)
    \/ \E roleName \in GrantableRoles : AssignRole("U1", roleName)
    \/ \E roleName \in GrantableRoles : RemoveRole("U1", roleName)

SpecAuth == InitAuth /\ [][NextAuth]_vars

(***************************************************************************)
(* SpecRegister: AuthService.register called by concurrent clients         *)
(*                                                                         *)
(* A register call reaches the database twice: user.findUnique and, when   *)
(* no account was found, user.create.  Each of the two is one step, so the *)
(* calls of different clients interleave between them.  The database       *)
(* enforces the unique columns of users on insert.                         *)
(***************************************************************************)
\* register is called while the table users holds fewer rows than this
MaxUsers == 2

Clients == {"c1", "c2"}
RegisterEmails == {"admin@hris.com", "new@hris.com", "ann@hris.com"}
FullNames == {"Ann", "Bob"}

EmailSudahTerdaftar == "Email sudah terdaftar"
\* the error of prisma.user.create when a unique column is already taken
UniqueUserConstraintFailed == "Unique constraint failed on the fields: (email or username)"

\* the ids @default(uuid()) draws from
Uuids == {"U2", "U3", "U4", "U5"}
uuid(db) == CHOOSE id \in Uuids : \A u \in db.users : u.id # id

\* faulty variant: the row is returned whole
selectAll(row, fields) == row

\* select: {id: true, email: true, username: true}
select(row, fields) == [field \in fields |-> row[field]]

NoAccountSummary == [id |-> Undefined, email |-> Undefined, username |-> Undefined]

\* a client with no call in progress; a call keeps the database as its
\* lookup read it (atFind) and as its last step found and left it
IdleCall ==
    [pc |-> "idle", email |-> Undefined, password |-> Undefined,
     fullName |-> Undefined, error |-> NoError, value |-> NoAccountSummary,
     atFind |-> EmptyDb, before |-> EmptyDb, after |-> EmptyDb]

\* the row prisma.user.create inserts: id, isActive and isSuspended by default
NewUserRow(db, email, passwordHash, username) ==
    [UserRow(uuid(db), email, TRUE, FALSE) EXCEPT
        !.username = username, !.passwordHash = passwordHash]

\* users.email and users.username are @unique
UniqueColumnsFree(db, row) ==
    \A u \in db.users : u.email # row.email /\ u.username # row.username

InitRegister ==
    /\ prisma = [EmptyDb EXCEPT
                    !.users = {UserRow("U1", "admin@hris.com", TRUE, FALSE)},
                    !.userRoles = <<[userId |-> "U1", roleName |-> "employee"]>>]
    /\ inFlight = [c \in Clients |-> IdleCall]
    /\ clock = 0
    /\ configService = [JWT_EXPIRES_IN |-> 0, JWT_REFRESH_EXPIRES_IN |-> 0]
    /\ lastCall = NoCall
    /\ issued = {}
    /\ loggedOut = {}
    /\ failing = {}
    /\ MatchIdle
    /\ GuardIdle

\* register, lines 103-109: the lookup by email and the Conflict
RegisterFind(c, email, password, fullName) ==
    /\ inFlight[c].pc \in {"idle", "done"}
    /\ Cardinality(prisma.users) < MaxUsers
    /\ inFlight' = [inFlight EXCEPT ![c] =
          [IdleCall EXCEPT
              !.pc = IF userFindUniqueByEmail(prisma, email) # {} THEN "done" ELSE "create",
              !.email = email, !.password = password, !.fullName = fullName,
              !.error = IF userFindUniqueByEmail(prisma, email) # {}
                        THEN EmailSudahTerdaftar ELSE NoError,
              !.atFind = prisma, !.before = prisma, !.after = prisma]]
    /\ UNCHANGED <<prisma, clock, configService, lastCall, issued, loggedOut, failing,
                   matchVars, guardVars>>

\* register, lines 111-122: the hash, the insert and the returned summary
RegisterCreate(c) ==
    /\ inFlight[c].pc = "create"
    /\ LET call == inFlight[c]
           row == NewUserRow(prisma, call.email, bcryptHash(call.password), call.fullName)
       IN
       IF UniqueColumnsFree(prisma, row)
       THEN /\ prisma' = [prisma EXCEPT !.users = @ \cup {row}]
            /\ inFlight' = [inFlight EXCEPT ![c] =
                  [call EXCEPT !.pc = "done", !.before = prisma, !.after = prisma',
                               !.value = select(row, {"id", "email", "username"})]]
       ELSE /\ prisma' = prisma
            /\ inFlight' = [inFlight EXCEPT ![c] =
                  [call EXCEPT !.pc = "done", !.before = prisma, !.after = prisma',
                               !.error = UniqueUserConstraintFailed]]
    /\ UNCHANGED <<clock, configService, lastCall, issued, loggedOut, failing,
                   matchVars, guardVars>>

NextRegister ==
    \/ \E c \in Clients, email \in RegisterEmails, password \in Passwords,
          fullName \in FullNames : RegisterFind(c, email, password, fullName)
    \/ \E c \in Clients : RegisterCreate(c)

SpecRegister == InitRegister /\ [][NextRegister]_vars

(***************************************************************************)
(* SpecAuthFaults: AuthService.login on a database that refuses writes     *)
(*                                                                         *)
(* login awaits its three writes one after the other, outside a            *)
(* transaction and outside any try block.  A write to a table that         *)
(* refuses it rejects, the rejection leaves login as it is, and the        *)
(* writes that came before it stay.                                        *)
(***************************************************************************)
\* the tables login writes to
FaultTables == {"refreshTokens", "loginHistory", "users"}

\* the error of a prisma write the database refuses
StorageError == "PrismaClientUnknownRequestError"

\* login, lines 141-158, the audit row written to a table of down failing
loginChecksOnStore(db, user, password, down) ==
    IF ~bcryptCompare(password, user.passwordHash)
    THEN IF "loginHistory" \in down
         THEN Throw(db, StorageError)
         ELSE Throw(loginHistoryCreate(db, user.id, "FAILED", "Invalid password"),
                    EmailOrPasswordWrong)
    ELSE IF ~user.isActive \/ user.isSuspended
    THEN Throw(db, UserInactiveOrSuspended)
    ELSE Returns(db, NoValue)

\* login, lines 160-208, each write to a table of down failing
loginIssueOnStore(db, cfg, now, user, email, down) ==
    LET permissions == getUserPermissions(db, user.id)
        roles == getUserRoles(db, user.id)
        accessToken == generateToken(cfg, now, user.id, email, permissions, roles)
        refreshToken == generateRefreshToken(cfg, now, user.id, email)
        db1 == refreshTokenCreate(db, user.id, refreshToken, now + SevenDays, now)
        db2 == loginHistoryCreate(db1, user.id, "SUCCESS", Undefined)
        db3 == userUpdateLastLogin(db2, user.id, now)
    IN
    IF "refreshTokens" \in down THEN Throw(db, StorageError)
    ELSE IF refreshTokenFindUnique(db, refreshToken) # {}
    THEN Throw(db, UniqueConstraintFailed)
    ELSE IF "loginHistory" \in down THEN Throw(db1, StorageError)
    ELSE IF "users" \in down THEN Throw(db2, StorageError)
    ELSE Returns(db3, [accessToken |-> accessToken, refreshToken |-> refreshToken,
                       user |-> Summary(user, roles, permissions)])

loginOnStore(db, cfg, now, email, password, down) ==
    LET found == userFindUniqueByEmail(db, email) IN
    IF found = {} THEN loginUserMissing(db)
    ELSE
    LET user == CHOOSE u \in found : TRUE
        checked == loginChecksOnStore(db, user, password, down)
    IN
    IF checked.error # NoError THEN checked
    ELSE loginIssueOnStore(db, cfg, now, user, email, down)

InitAuthFaults == InitAuth

LoginOnStore(email, password) ==
    /\ Len(prisma.loginHistory) < MaxHistory
    /\ Len(prisma.refreshTokens) < MaxHistory
    /\ LET r == loginOnStore(prisma, configService, clock, email, password, failing) IN
       /\ prisma' = r.db
       /\ lastCall' = Call("login", email, password, Undefined, NoToken, clock, prisma, r)
       /\ issued' = IF r.error = NoError
                    THEN issued \cup {[accessToken |-> r.value.accessToken,
                                       refreshToken |-> r.value.refreshToken]}
                    ELSE issued
    /\ UNCHANGED <<clock, configService, loggedOut, failing, inFlight, matchVars, guardVars>>

\* the database starts to refuse the writes to a table
Break(table) ==
    /\ table \notin failing
    /\ failing' = failing \cup {table}
    /\ lastCall' = NoCall
    /\ UNCHANGED <<prisma, clock, configService, issued, loggedOut, inFlight,
                   matchVars, guardVars>>

\* the database accepts the writes to a table again
Repair(table) ==
    /\ table \in failing
    /\ failing' = failing \ {table}
    /\ lastCall' = NoCall
    /\ UNCHANGED <<prisma, clock, configService, issued, loggedOut, inFlight,
                   matchVars, guardVars>>

NextAuthFaults ==
    \/ \E email \in Emails, password \in Passwords : LoginOnStore(email, password)
    \/ \E table \in FaultTables : Break(table)
    \/ \E table \in FaultTables : Repair(table)
    \/ Tick
    \/ \E isActive, isSuspended \in BOOLEAN : SetAccountStatus("U1", isActive, isSuspended)

SpecAuthFaults == InitAuthFaults /\ [][NextAuthFaults]_vars

(***************************************************************************)
(* SpecAuthSteps: login, refresh and logout called by concurrent clients   *)
(*                                                                         *)
(* A call gives way to the other calls at each await on the database.      *)
(* refresh reads refresh_tokens, then the permissions, then the roles,     *)
(* then the user; login reads the user (and writes the FAILED audit row),  *)
(* then the permissions, then the roles, and then stores what it issues:   *)
(* its three writes are one step here, since no step reads login_history   *)
(* or lastLoginAt.  logout is its single updateMany.  The administration   *)
(* changes the role assignments between any two steps.                     *)
(***************************************************************************)
\* a client with no call in progress; revokedAtMint tells whether the
\* Session of a refresh was revoked when its access token was produced
IdleFrame ==
    [pc |-> "idle", op |-> "none", token |-> NoToken, email |-> Undefined,
     sub |-> Undefined, found |-> {}, permissions |-> <<>>, roles |-> <<>>,
     error |-> NoError, value |-> NoValue, revokedAtMint |-> FALSE]

\* the call of a frame ends by throwing
FrameThrows(frame, message) == [frame EXCEPT !.pc = "done", !.error = message]

InitAuthSteps ==
    /\ prisma = [EmptyDb EXCEPT
                    !.users = {UserRow("U1", "admin@hris.com", TRUE, FALSE)},
                    !.userRoles = <<[userId |-> "U1", roleName |-> "employee"]>>]
    /\ inFlight = [c \in Clients |-> IdleFrame]
    /\ clock = 0
    /\ configService = [JWT_EXPIRES_IN |-> 0, JWT_REFRESH_EXPIRES_IN |-> 0]
    /\ lastCall = NoCall
    /\ issued = {}
    /\ loggedOut = {}
    /\ failing = {}
    /\ MatchIdle
    /\ GuardIdle

\* login, lines 126-158: the lookup by email and the checks
LoginFind(c, email, password) ==
    /\ inFlight[c].pc \in {"idle", "done"}
    /\ Len(prisma.loginHistory) < MaxHistory
    /\ LET found == userFindUniqueByEmail(prisma, email)
           frame == [IdleFrame EXCEPT !.op = "login", !.email = email, !.found = found]
       IN
       IF found = {}
       THEN /\ inFlight' = [inFlight EXCEPT ![c] = FrameThrows(frame, EmailOrPasswordWrong)]
            /\ prisma' = prisma
       ELSE LET user == CHOOSE u \in found : TRUE
                checked == loginChecks(prisma, user, password)
            IN
            /\ prisma' = checked.db
            /\ inFlight' = [inFlight EXCEPT ![c] =
                  IF checked.error # NoError
                  THEN FrameThrows(frame, checked.error)
                  ELSE [frame EXCEPT !.pc = "permissions", !.sub = user.id]]
    /\ UNCHANGED <<clock, configService, lastCall, issued, loggedOut, failing,
                   matchVars, guardVars>>

\* refresh, lines 212-231: the verification and the lookup of the Session
RefreshFind(c, refreshToken) ==
    /\ inFlight[c].pc \in {"idle", "done"}
    /\ LET frame == [IdleFrame EXCEPT !.op = "refresh", !.token = refreshToken]
           found == refreshTokenFindUnique(prisma, refreshToken)
           tokenRecord == prisma.refreshTokens[CHOOSE i \in found : TRUE]
       IN
       inFlight' = [inFlight EXCEPT ![c] =
          IF verify(refreshToken, clock) # NoError THEN FrameThrows(frame, InvalidRefreshToken)
          ELSE IF found = {} THEN FrameThrows(frame, InvalidRefreshToken)
          ELSE IF tokenRecord.isRevoked THEN FrameThrows(frame, InvalidRefreshToken)
          ELSE IF tokenRecord.expiresAt < clock THEN FrameThrows(frame, InvalidRefreshToken)
          ELSE [frame EXCEPT !.pc = "permissions", !.sub = refreshToken.payload.sub]]
    /\ UNCHANGED <<prisma, clock, configService, lastCall, issued, loggedOut, failing,
                   matchVars, guardVars>>

\* login line 160, refresh line 233: await this.getUserPermissions
FetchPermissions(c) ==
    /\ inFlight[c].pc = "permissions"
    /\ inFlight' = [inFlight EXCEPT ![c] =
          [@ EXCEPT !.pc = "roles",
                    !.permissions = getUserPermissions(prisma, inFlight[c].sub)]]
    /\ UNCHANGED <<prisma, clock, configService, lastCall, issued, loggedOut, failing,
                   matchVars, guardVars>>

\* login line 161, refresh line 234: await this.getUserRoles
FetchRoles(c) ==
    /\ inFlight[c].pc = "roles"
    /\ inFlight' = [inFlight EXCEPT ![c] =
          [@ EXCEPT !.pc = IF inFlight[c].op = "login" THEN "store" ELSE "user",
                    !.roles = getUserRoles(prisma, inFlight[c].sub)]]
    /\ UNCHANGED <<prisma, clock, configService, lastCall, issued, loggedOut, failing,
                   matchVars, guardVars>>

\* login, lines 163-208: the tokens, the three writes and the return value
LoginStore(c) ==
    /\ inFlight[c].pc = "store"
    /\ LET frame == inFlight[c]
           user == CHOOSE u \in frame.found : TRUE
           accessToken == generateToken(configService, clock, user.id, frame.email,
                                        frame.permissions, frame.roles)
           refreshToken == generateRefreshToken(configService, clock, user.id, frame.email)
           db1 == refreshTokenCreate(prisma, user.id, refreshToken, clock + SevenDays, clock)
           db2 == loginHistoryCreate(db1, user.id, "SUCCESS", Undefined)
           db3 == userUpdateLastLogin(db2, user.id, clock)
       IN
       IF refreshTokenFindUnique(prisma, refreshToken) # {}
       THEN /\ inFlight' = [inFlight EXCEPT ![c] = FrameThrows(frame, UniqueConstraintFailed)]
            /\ UNCHANGED <<prisma, issued>>
       ELSE /\ prisma' = db3
            /\ issued' = issued \cup {[accessToken |-> accessToken,
                                       refreshToken |-> refreshToken]}
            /\ inFlight' = [inFlight EXCEPT ![c] =
                  [frame EXCEPT !.pc = "done",
                                !.value = [accessToken |-> accessToken,
                                           refreshToken |-> refreshToken,
                                           user |-> Summary(user, frame.roles,
                                                            frame.permissions)]]]
    /\ UNCHANGED <<clock, configService, lastCall, loggedOut, failing, matchVars, guardVars>>

\* refresh, lines 236-260: the lookup of the user and the new access token
RefreshMint(c) ==
    /\ inFlight[c].pc = "user"
    /\ LET frame == inFlight[c]
           users == userFindUniqueById(prisma, frame.sub)
           user == CHOOSE u \in users : TRUE
       IN
       inFlight' = [inFlight EXCEPT ![c] =
          IF users = {} THEN FrameThrows(frame, InvalidRefreshToken)
          ELSE [frame EXCEPT
                  !.pc = "done",
                  !.revokedAtMint =
                      \E i \in refreshTokenFindUnique(prisma, frame.token) :
                          prisma.refreshTokens[i].isRevoked,
                  !.value = [accessToken |-> generateToken(configService, clock, user.id,
                                                           user.email, frame.permissions,
                                                           frame.roles),
                             refreshToken |-> NoToken,
                             user |-> Summary(user, frame.roles, frame.permissions)]]]
    /\ UNCHANGED <<prisma, clock, configService, lastCall, issued, loggedOut, failing,
                   matchVars, guardVars>>

\* logout, lines 267-274, by a client that has no other call in progress
LogoutCall(c, userId, refreshToken) ==
    /\ inFlight[c].pc \in {"idle", "done"}
    /\ logout(prisma, userId, refreshToken).db # prisma
    /\ prisma' = logout(prisma, userId, refreshToken).db
    /\ inFlight' = [inFlight EXCEPT ![c] =
          [IdleFrame EXCEPT !.pc = "done", !.op = "logout", !.token = refreshToken]]
    /\ loggedOut' = loggedOut \cup {refreshToken}
    /\ UNCHANGED <<clock, configService, lastCall, issued, failing, matchVars, guardVars>>

NextAuthSteps ==
    \/ \E c \in Clients, email \in Emails, password \in Passwords :
          LoginFind(c, email, password)
    \/ \E c \in Clients, pair \in issued : RefreshFind(c, pair.refreshToken)
    \/ \E c \in Clients : FetchPermissions(c)
    \/ \E c \in Clients : FetchRoles(c)
    \/ \E c \in Clients : LoginStore(c)
    \/ \E c \in Clients : RefreshMint(c)
    \/ \E c \in Clients, pair \in issued : LogoutCall(c, "U1", pair.refreshToken)
    \/ \E roleName \in GrantableRoles : AssignRole("U1", roleName)
    \/ \E roleName \in GrantableRoles : RemoveRole("U1", roleName)

SpecAuthSteps == InitAuthSteps /\ [][NextAuthSteps]_vars

(***************************************************************************)
(* Properties of matchesPermission (checked under SpecMatch)               *)
(***************************************************************************)
\* The positions of the separators, and the three segments read off them:
\* a description of "resource:action:scope" that does not go through split.
ColonPositions(s) == {i \in 1..Len(s) : s[i] = Colon}
HasThreeSegments(s) == Cardinality(ColonPositions(s)) = 2
FirstColon(s) == CHOOSE i \in ColonPositions(s) : \A j \in ColonPositions(s) : i <= j
LastColon(s) == CHOOSE i \in ColonPositions(s) : \A j \in ColonPositions(s) : j <= i
SegmentAt(s, k) ==
    CASE k = 1 -> SubSeq(s, 1, FirstColon(s) - 1)
      [] k = 2 -> SubSeq(s, FirstColon(s) + 1, LastColon(s) - 1)
      [] k = 3 -> SubSeq(s, LastColon(s) + 1, Len(s))

Matched == matchResult # "idle"

\* C1: matchesPermission(required, held) is true exactly when both strings
\* have exactly 3 colon-separated segments and at each of the 3 positions
\* the held segment is "*" or equals the required segment; otherwise false.
C1_MatchesExactly ==
    Matched =>
        (matchResult = "true" <=>
            /\ HasThreeSegments(matchRequired)
            /\ HasThreeSegments(matchHeld)
            /\ \A k \in 1..3 :
                  \/ SegmentAt(matchHeld, k) = <<Star>>
                  \/ SegmentAt(matchHeld, k) = SegmentAt(matchRequired, k))

\* C1 witness: the documented pair "employee:read:own" against the held
\* "employee:*:own" shape (a concrete required action, a held wildcard
\* action) has been matched and gave true.
C1_Witness ==
    /\ matchResult = "true"
    /\ matchRequired = <<"a", Colon, "a", Colon, "a">>
    /\ matchHeld = <<"a", Colon, Star, Colon, "a">>

\* C8: matchesPermission(required, "*:*:*") is true for every required
\* string with exactly 3 colon-separated segments.
C8_SuperAdminMatchesAll ==
    (Matched /\ matchHeld = SUPER_ADMIN /\ HasThreeSegments(matchRequired))
        => matchResult = "true"

\* C8 witness: a concrete three-segment requirement, one segment of it
\* empty, has been matched against "*:*:*".
C8_Witness ==
    /\ Matched
    /\ matchHeld = SUPER_ADMIN
    /\ matchRequired = <<"a", Colon, Colon, "a", "a">>

\* C10: a "*" in a segment of the required permission does not match a
\* different segment of the held permission: the result is false whenever
\* at some position required is "*" and held is not "*".
C10_WildcardAsymmetric ==
    (/\ Matched
     /\ HasThreeSegments(matchRequired)
     /\ HasThreeSegments(matchHeld)
     /\ \E k \in 1..3 :
           /\ SegmentAt(matchRequired, k) = <<Star>>
           /\ SegmentAt(matchHeld, k) # <<Star>>)
        => matchResult = "false"

\* C10 witness: the AdminOnly requirement "*:*:*" has been matched against
\* a held permission that differs from it in the action segment only.
C10_Witness ==
    /\ matchResult = "false"
    /\ matchRequired = SUPER_ADMIN
    /\ matchHeld = <<Star, Colon, "a", Colon, Star>>

(***************************************************************************)
(* Properties of parsePermission (checked under SpecParse)                 *)
(***************************************************************************)
ThreeNonEmptySegments(s) ==
    /\ HasThreeSegments(s)
    /\ \A k \in 1..3 : SegmentAt(s, k) # <<>>

\* C11: parsePermission returns null for every string that does not split
\* on ':' into exactly 3 non-empty segments (a string with 3 segments of
\* which one is empty included), and for every other string it returns the
\* three segments in order.
C11_ParseNullUnlessThreeNonEmpty ==
    parseResult.called =>
        IF ThreeNonEmptySegments(matchRequired)
        THEN /\ ~parseResult.value.isNull
             /\ parseResult.value.resource = SegmentAt(matchRequired, 1)
             /\ parseResult.value.action = SegmentAt(matchRequired, 2)
             /\ parseResult.value.scope = SegmentAt(matchRequired, 3)
        ELSE parseResult.value.isNull

(***************************************************************************)
(* Properties of PermissionsGuard (checked under Spec)                     *)
(***************************************************************************)
Done == pc = "done"
Caller == httpRequest.user
AnyList == meta.anyPermissions
AllList == meta.allPermissions
Items(list) == {list.items[i] : i \in 1..Len(list.items)}

\* the request carries claims with a subject identifier
Authenticated == Caller.present /\ Caller.sub # Undefined /\ Caller.sub # ""

\* some requirement is declared and non-empty
DeclaresRequirement ==
    \/ (AnyList.defined /\ AnyList.items # <<>>)
    \/ (AllList.defined /\ AllList.items # <<>>)
    \/ (meta.requiredRoles.defined /\ meta.requiredRoles.items # <<>>)

RolesDeclared == meta.requiredRoles.defined /\ meta.requiredRoles.items # <<>>
SharesRole == Items(meta.requiredRoles) \cap Items(Caller.roles) # {}
RoleStepPasses == RolesDeclared => SharesRole

\* the single-permission check of one declared permission for this request
Check(p) == hasPermission(p, Caller.permissions, Caller, httpRequest)
Passes(p) == Check(p) = "true"

\* the caller holds p, exactly or through a wildcard
Holds(p) ==
    \/ p \in Caller.permissions
    \/ \E h \in Caller.permissions :
          /\ HasThreeSegments(p) /\ HasThreeSegments(h)
          /\ \A k \in 1..3 : SegmentAt(h, k) = <<Star>> \/ SegmentAt(h, k) = SegmentAt(p, k)

\* canActivate got as far as the ALL list, resp. the ANY list
ReachesAllList == ~meta.skipCheck /\ DeclaresRequirement /\ Authenticated /\ RoleStepPasses
AllListPasses == \A p \in Items(AllList) : Passes(p)
ReachesAnyList == ReachesAllList /\ AllListPasses

\* C2: with an ANY-of list declared, the request is allowed whenever at
\* least one listed permission passes the single-permission check, whatever
\* the order of the list and the other entries; it is denied with
\* "Insufficient permissions" only when no entry passes.
C2_AnyOfAllowsIfOnePasses ==
    (Done /\ ReachesAnyList /\ Items(AnyList) # {}) =>
        /\ (\E p \in Items(AnyList) : Passes(p)) => outcome = Allow
        /\ outcome = InsufficientPermissions => \A p \in Items(AnyList) : ~Passes(p)

\* first index of the ALL list whose single-permission check is not "true"
FirstNotPassing(list) ==
    CHOOSE i \in 1..Len(list.items) :
        /\ ~Passes(list.items[i])
        /\ \A j \in 1..(i - 1) : Passes(list.items[j])

\* C3 as stated: with an ALL-of list declared, the request is allowed only
\* if every listed permission passes the single-permission check, and if any
\* entry has no matching held permission the request is denied with
\* "Insufficient permissions".
C3_AllOfDeniesInsufficient ==
    (Done /\ ReachesAllList /\ Items(AllList) # {}) =>
        /\ outcome = Allow => AllListPasses
        /\ (\E p \in Items(AllList) : ~Holds(p)) => outcome = InsufficientPermissions

\* C3 amended: with an ALL-of list declared, the request is allowed only if
\* every listed permission passes the single-permission check; if any entry
\* has no matching held permission the request is denied, with "Insufficient
\* permissions" when the first entry of the list that does not pass returns
\* false, and with "Cannot access resources owned by others" when that first
\* entry is a held 'own' permission failing the ownership check.
C3_AllOfDenies ==
    (Done /\ ReachesAllList /\ Items(AllList) # {}) =>
        /\ outcome = Allow => AllListPasses
        /\ (\E p \in Items(AllList) : ~Holds(p)) =>
              LET first == AllList.items[FirstNotPassing(AllList)] IN
              /\ outcome \in {InsufficientPermissions, CannotAccessOthers}
              /\ outcome = CannotAccessOthers <=>
                    /\ Holds(first)
                    /\ parsePermission(first).scope = <<"own">>
                    /\ Check(first) = CannotAccessOthers

\* C3 witness: an ALL-of list of two entries, the first one held and
\* passing, the second one not held, was denied with "Insufficient
\* permissions".
C3_Witness ==
    /\ Done
    /\ ReachesAllList
    /\ Len(AllList.items) = 2
    /\ Passes(AllList.items[1])
    /\ ~Holds(AllList.items[2])
    /\ outcome = InsufficientPermissions

\* C4: with a non-empty required-role list, the role step passes only if
\* the caller's roles and the required roles share a name; otherwise (a
\* caller without roles included) the request is denied with "Insufficient
\* role", before any permission of a list is evaluated.
C4_RoleStep ==
    (Done /\ ~meta.skipCheck /\ Authenticated /\ RolesDeclared) =>
        /\ outcome = InsufficientRole <=> ~SharesRole
        /\ outcome = InsufficientRole => evaluated = <<>>

\* C4 witness: a caller whose roles list is missing, holding a permission
\* the handler's ALL list asks for, was denied with "Insufficient role".
C4_Witness ==
    /\ Done
    /\ outcome = InsufficientRole
    /\ ~Caller.roles.defined
    /\ Items(AllList) # {}
    /\ AllListPasses

\* C5: when a non-empty requirement is declared and the handler is not
\* marked skip, a request without claims or without subject identifier is
\* rejected as unauthenticated, before any role or permission check.
C5_Unauthenticated ==
    (Done /\ ~meta.skipCheck /\ DeclaresRequirement /\ ~Authenticated) =>
        /\ outcome = UserNotAuthenticated
        /\ evaluated = <<>>

\* C5 witness: claims with an empty subject identifier, a role the handler
\* requires and the super-admin permission were rejected as unauthenticated.
C5_Witness ==
    /\ Done
    /\ outcome = UserNotAuthenticated
    /\ Caller.present
    /\ Caller.sub = ""
    /\ RolesDeclared /\ SharesRole
    /\ Items(AnyList) # {}

\* C6: the request is allowed without a look at the claims when the handler
\* is marked skip or declares no requirement (the three lists missing or
\* empty); the skip marking wins over declared requirements.
C6_SkipOrNoRequirement ==
    (Done /\ (meta.skipCheck \/ ~DeclaresRequirement)) =>
        /\ outcome = Allow
        /\ evaluated = <<>>

\* C6 witness: a handler marked skip that also requires roles and
\* permissions allowed a request without claims.
C6_Witness ==
    /\ Done
    /\ outcome = Allow
    /\ meta.skipCheck
    /\ RolesDeclared
    /\ Items(AllList) # {}
    /\ ~Caller.present

\* the request parameters in lookup order, and the first non-empty one
ParamOrder ==
    <<httpRequest.params.id, httpRequest.params.userId,
      httpRequest.params.employeeId, httpRequest.params.resourceId>>
NonEmptyParams == {i \in 1..4 : ParamOrder[i] # Undefined /\ ParamOrder[i] # ""}
HasResourceId == NonEmptyParams # {}
FirstNonEmptyParam ==
    ParamOrder[CHOOSE i \in NonEmptyParams : \A j \in NonEmptyParams : i <= j]

WellFormed(p) == HasThreeSegments(p)

\* C9: a caller holding "*:*:*" is allowed on every handler whose only
\* requirements are ANY-of / ALL-of lists of well-formed permissions, for
\* every request, a resource id different from the caller's ids included.
C9_SuperAdminAllowed ==
    (/\ Done
     /\ ~RolesDeclared
     /\ Authenticated
     /\ SUPER_ADMIN \in Caller.permissions
     /\ \A p \in Items(AnyList) \cup Items(AllList) : WellFormed(p)) =>
        outcome = Allow

(***************************************************************************)
(* Properties of AuthService (checked under SpecAuth)                      *)
(***************************************************************************)
Range(items) == {items[i] : i \in 1..Len(items)}
NoDuplicates(items) == Cardinality(Range(items)) = Len(items)

LoginCalled == lastCall.op = "login"
RefreshCalled == lastCall.op = "refresh"
Succeeded == lastCall.error = NoError

\* the accounts with the email the login was called with, before the call
LoginAccounts == {u \in lastCall.before.users : u.email = lastCall.email}
LoginAccount == CHOOSE u \in LoginAccounts : TRUE

\* the names of the roles assigned to the account in the database db
AssignedRoles(db, userId) ==
    {db.userRoles[i].roleName : i \in {j \in 1..Len(db.userRoles) : db.userRoles[j].userId = userId}}

\* the permission strings of the permissions a role owns
OwnedPermissions(roleName) == Range([i \in 1..Len(RolePermissions(roleName)) |->
                                        PermissionString(RolePermissions(roleName)[i])])

\* the union over the roles assigned to the account in db
AggregatedPermissions(db, userId) ==
    UNION {OwnedPermissions(roleName) : roleName \in AssignedRoles(db, userId)}

\* an access token and a user summary carry exactly the permissions and
\* roles aggregated from the database db
CarriesAggregate(value, db, userId) ==
    LET claims == value.accessToken.payload IN
    /\ value.accessToken # NoToken
    /\ claims.sub = userId
    /\ claims.type = "access"
    /\ claims.permissions.defined
    /\ Range(claims.permissions.items) = AggregatedPermissions(db, userId)
    /\ NoDuplicates(claims.permissions.items)
    /\ claims.roles.defined
    /\ Range(claims.roles.items) = AssignedRoles(db, userId)
    /\ NoDuplicates(claims.roles.items)
    /\ value.user.permissions = claims.permissions.items
    /\ value.user.roles = claims.roles.items

\* C12: a successful login returns an access token and a user summary whose
\* permissions are exactly the duplicate-free union, over the roles assigned
\* to the account when login is called, of the permission strings each role
\* owns, and whose roles are the names of those roles.
C12_LoginAggregatesPermissions ==
    (LoginCalled /\ Succeeded) =>
        CarriesAggregate(lastCall.value, lastCall.before, LoginAccount.id)

\* a second successful login, after the role manager was added: the two
\* roles share a permission, and the first login's token carried less
C12_Witness ==
    /\ LoginCalled /\ Succeeded
    /\ AssignedRoles(lastCall.before, "U1") = {"employee", "manager"}
    /\ Len(lastCall.value.user.permissions) = 3
    /\ \E pair \in issued :
          /\ pair.accessToken # lastCall.value.accessToken
          /\ Len(pair.accessToken.payload.permissions.items) = 2

\* the rows a table held before the call are still its first rows
KeepsRows(before, after) ==
    /\ Len(after) >= Len(before)
    /\ SubSeq(after, 1, Len(before)) = before

\* the table holds the rows it held before the call and one more
OneNewRow(before, after) ==
    /\ Len(after) = Len(before) + 1
    /\ KeepsRows(before, after)

\* C13: a successful login persists exactly one new Session row whose token
\* is the returned refresh token, whose owner is the account, that is not
\* revoked and expires strictly after its creation; it appends exactly one
\* SUCCESS LoginHistory row and sets the account's lastLoginAt to the time
\* of the call, and changes nothing else.
C13_LoginPersistsSession ==
    (LoginCalled /\ Succeeded) =>
        LET before == lastCall.before
            session == prisma.refreshTokens[Len(prisma.refreshTokens)]
            audit == prisma.loginHistory[Len(prisma.loginHistory)]
        IN
        /\ OneNewRow(before.refreshTokens, prisma.refreshTokens)
        /\ lastCall.value.refreshToken # NoToken
        /\ session.token = lastCall.value.refreshToken
        /\ session.userId = LoginAccount.id
        /\ ~session.isRevoked
        /\ session.createdAt = lastCall.at
        /\ session.expiresAt > session.createdAt
        /\ OneNewRow(before.loginHistory, prisma.loginHistory)
        /\ audit.status = "SUCCESS"
        /\ audit.userId = LoginAccount.id
        /\ prisma.users = {IF u = LoginAccount
                           THEN [u EXCEPT !.lastLoginAt = lastCall.at]
                           ELSE u : u \in before.users}
        /\ prisma.userRoles = before.userRoles

\* a successful login of an account that has logged in at an earlier time
C13_Witness ==
    /\ LoginCalled /\ Succeeded
    /\ Len(lastCall.before.refreshTokens) = 1
    /\ LoginAccount.lastLoginAt # NullDate
    /\ LoginAccount.lastLoginAt < lastCall.at
    /\ Len(prisma.refreshTokens) = 2

\* the login was called with the email of an account and a password that
\* is not the account's
WrongPassword ==
    /\ LoginCalled
    /\ LoginAccounts # {}
    /\ ~bcryptCompare(lastCall.password, LoginAccount.passwordHash)

\* C14: a login with an existing email and a wrong password fails with the
\* invalid-credentials error, appends exactly one FAILED LoginHistory row,
\* creates no Session row, returns no token and leaves the account record
\* unchanged.
C14_WrongPasswordFails ==
    WrongPassword =>
        LET before == lastCall.before
            audit == prisma.loginHistory[Len(prisma.loginHistory)]
        IN
        /\ lastCall.error = EmailOrPasswordWrong
        /\ OneNewRow(before.loginHistory, prisma.loginHistory)
        /\ audit.status = "FAILED"
        /\ audit.userId = LoginAccount.id
        /\ prisma.refreshTokens = before.refreshTokens
        /\ lastCall.value = NoValue
        /\ prisma.users = before.users
        /\ prisma.userRoles = before.userRoles

\* a wrong password for an enabled account that has a session and a
\* last-login time
C14_Witness ==
    /\ WrongPassword
    /\ LoginAccount.isActive /\ ~LoginAccount.isSuspended
    /\ LoginAccount.lastLoginAt # NullDate
    /\ Len(prisma.refreshTokens) = 1
    /\ Len(prisma.loginHistory) = 2

\* the login was called with an email no account has
UnknownEmail == LoginCalled /\ LoginAccounts = {}

\* C15: the result of login for an email with no account is the same error
\* value as the result of login, on the same database at the same time, for
\* an existing email with a wrong password.
C15_FailureHidesRegistration ==
    UnknownEmail =>
        \A u \in lastCall.before.users : \A password \in Passwords :
            ~bcryptCompare(password, u.passwordHash) =>
                LET other == login(lastCall.before, configService, lastCall.at,
                                   u.email, password)
                IN
                /\ other.error # NoError
                /\ other.error = lastCall.error
                /\ other.value = lastCall.value

\* a login with an unknown email while an account exists, here a suspended
\* one that has a session
C15_Witness ==
    /\ UnknownEmail
    /\ lastCall.error # NoError
    /\ \E u \in lastCall.before.users : u.isSuspended
    /\ Len(lastCall.before.refreshTokens) = 1

\* an account that is inactive or suspended
Disabled(u) == ~u.isActive \/ u.isSuspended

\* the database db with every account active and not suspended
Enabled(db) ==
    [db EXCEPT !.users = {[u EXCEPT !.isActive = TRUE, !.isSuspended = FALSE] : u \in @}]

\* C16: login on an inactive or suspended account fails with the
\* account-disabled error when the password is correct, and with the
\* invalid-credentials error, exactly as for the same account enabled, when
\* the password is wrong.
C16_DisabledCheckedAfterPassword ==
    (LoginCalled /\ LoginAccounts # {} /\ Disabled(LoginAccount)) =>
        IF bcryptCompare(lastCall.password, LoginAccount.passwordHash)
        THEN /\ lastCall.error = UserInactiveOrSuspended
             /\ lastCall.error # EmailOrPasswordWrong
        ELSE LET enabled == login(Enabled(lastCall.before), configService, lastCall.at,
                                  lastCall.email, lastCall.password)
             IN
             /\ lastCall.error = EmailOrPasswordWrong
             /\ lastCall.error = enabled.error
             /\ lastCall.value = enabled.value

\* the correct password for an account suspended after a login of its own
C16_Witness ==
    /\ LoginCalled
    /\ LoginAccounts # {}
    /\ LoginAccount.isSuspended
    /\ bcryptCompare(lastCall.password, LoginAccount.passwordHash)
    /\ lastCall.error = UserInactiveOrSuspended
    /\ Len(lastCall.before.refreshTokens) = 1

\* the call returned an access token or a refresh token
IssuedToken ==
    \/ lastCall.value.accessToken # NoToken
    \/ lastCall.value.refreshToken # NoToken

\* C17: neither login nor refresh issues a token for an account that is
\* inactive or suspended when the call is made, whatever the password and
\* whatever sessions the account still owns.
C17_NoTokenForDisabledAccount ==
    /\ (LoginCalled /\ LoginAccounts # {} /\ Disabled(LoginAccount)) => ~IssuedToken
    /\ RefreshCalled =>
          \A u \in lastCall.before.users :
              (u.id = lastCall.token.payload.sub /\ Disabled(u)) => ~IssuedToken

\* C18: after any login call against an existing account (success, wrong
\* password, or account inactive or suspended) the login history holds
\* exactly one more row than before, and no call changes or removes a row
\* the history already held.
C18_EveryLoginAttemptRecorded ==
    /\ (LoginCalled /\ LoginAccounts # {}) =>
          OneNewRow(lastCall.before.loginHistory, prisma.loginHistory)
    /\ lastCall.op # "none" =>
          KeepsRows(lastCall.before.loginHistory, prisma.loginHistory)

\* the refresh was called with a token that jwtService.verify accepts
RefreshVerified == RefreshCalled /\ verify(lastCall.token, lastCall.at) = NoError

\* the sessions stored for the token before the call
SessionsOfToken ==
    {lastCall.before.refreshTokens[i] : i \in refreshTokenFindUnique(lastCall.before, lastCall.token)}

\* C19: refresh reports the cause of a session failure with distinct error
\* kinds: no Session row for a validly signed token, a revoked Session and
\* a Session past its expiry each fail with their own error.
C19_RefreshErrorsDistinct ==
    RefreshVerified =>
        /\ SessionsOfToken = {} => lastCall.error = RefreshTokenNotFound
        /\ \A session \in SessionsOfToken :
              /\ session.isRevoked => lastCall.error = RefreshTokenRevoked
              /\ (~session.isRevoked /\ session.expiresAt < lastCall.at) =>
                    lastCall.error = RefreshTokenExpired

\* the access tokens login returned together with the token the refresh
\* was called with
LoginTokensOfSession ==
    {pair.accessToken : pair \in {q \in issued : q.refreshToken = lastCall.token}}

\* C20: a successful refresh returns an access token and a user summary
\* whose permissions and roles are aggregated from the account's role
\* assignments as they are when refresh is called, whatever set the login
\* of the session embedded.
C20_RefreshReaggregates ==
    (RefreshCalled /\ Succeeded) =>
        CarriesAggregate(lastCall.value, lastCall.before, lastCall.token.payload.sub)

\* a successful refresh of a session whose login embedded other
\* permissions and roles: the assignments were changed in between
C20_Witness ==
    /\ RefreshCalled /\ Succeeded
    /\ \E accessToken \in LoginTokensOfSession :
          /\ accessToken.payload.permissions # lastCall.value.accessToken.payload.permissions
          /\ accessToken.payload.roles # lastCall.value.accessToken.payload.roles
    /\ \A session \in SessionsOfToken : ~session.isRevoked

LogoutCalled == lastCall.op = "logout"

\* the session is the one the logout names: its token is the supplied
\* refresh token and its owner the supplied account
NamedByLogout(session) ==
    /\ lastCall.token # NoToken
    /\ session.token = lastCall.token
    /\ session.userId = lastCall.userId

\* C22: logout raises no error and changes the stored data only by setting
\* isRevoked on the Session whose token is the supplied refresh token and
\* whose owner is the supplied account; without a token, with an unknown
\* token, with the token of another account's session or with an already
\* revoked session every Session row stays as it was, and a second logout
\* with the same arguments changes nothing.
C22_LogoutFrame ==
    LogoutCalled =>
        LET before == lastCall.before IN
        /\ lastCall.error = NoError
        /\ prisma.users = before.users
        /\ prisma.userRoles = before.userRoles
        /\ prisma.loginHistory = before.loginHistory
        /\ Len(prisma.refreshTokens) = Len(before.refreshTokens)
        /\ \A i \in 1..Len(before.refreshTokens) :
              prisma.refreshTokens[i] =
                  IF NamedByLogout(before.refreshTokens[i])
                  THEN [before.refreshTokens[i] EXCEPT !.isRevoked = TRUE]
                  ELSE before.refreshTokens[i]
        /\ (\A i \in 1..Len(before.refreshTokens) :
                NamedByLogout(before.refreshTokens[i]) => before.refreshTokens[i].isRevoked)
              => prisma.refreshTokens = before.refreshTokens
        /\ logout(prisma, lastCall.userId, lastCall.token).db = prisma

\* a logout by another account with the token of an unrevoked session,
\* while a second session exists
C22_Witness ==
    /\ LogoutCalled
    /\ lastCall.userId = "U2"
    /\ Len(prisma.refreshTokens) = 2
    /\ \E i \in 1..2 :
          /\ prisma.refreshTokens[i].token = lastCall.token
          /\ prisma.refreshTokens[i].userId = "U1"
          /\ ~prisma.refreshTokens[i].isRevoked

\* the login was called with the email and the password of an account that
\* is active and not suspended
ValidLogin ==
    /\ LoginCalled
    /\ LoginAccounts # {}
    /\ bcryptCompare(lastCall.password, LoginAccount.passwordHash)
    /\ ~Disabled(LoginAccount)

\* the sessions of an account that refresh accepts at the time now
UsableSessions(db, userId, now) ==
    {i \in 1..Len(db.refreshTokens) :
        /\ db.refreshTokens[i].userId = userId
        /\ refreshTry(db, configService, now, db.refreshTokens[i].token).error = NoError}

\* C23: every login of an account with valid credentials succeeds, however
\* many logins of the account came before and also at the same clock
\* instant, and creates its own Session row with a token no other row has;
\* revoking one session leaves the account's other sessions usable.
C23_LoginsIndependent ==
    /\ ValidLogin =>
          /\ Succeeded
          /\ OneNewRow(lastCall.before.refreshTokens, prisma.refreshTokens)
          /\ \A i \in 1..Len(lastCall.before.refreshTokens) :
                lastCall.before.refreshTokens[i].token # lastCall.value.refreshToken
    /\ LogoutCalled =>
          \A i \in UsableSessions(lastCall.before, lastCall.userId, lastCall.at) :
              \/ NamedByLogout(lastCall.before.refreshTokens[i])
              \/ i \in UsableSessions(prisma, lastCall.userId, lastCall.at)

(***************************************************************************)
(* Properties of AuthService.register (checked under SpecRegister)         *)
(***************************************************************************)
\* the clients whose register call has returned or thrown
Registered == {c \in Clients : inFlight[c].pc = "done"}

AccountsWithEmail(db, email) == {u \in db.users : u.email = email}

\* C24: register fails with the Conflict error when its lookup finds an
\* account with the given email and then leaves the table users as it was;
\* under every interleaving of register calls the table holds at most one
\* account per email; a successful register returns exactly the fields id,
\* email and username of the account it stored, whose passwordHash is the
\* bcrypt hash of the password and is not part of the returned value.
C24_RegisterConflict ==
    /\ \A u1, u2 \in prisma.users : u1.email = u2.email => u1 = u2
    /\ \A c \in Registered :
          LET call == inFlight[c] IN
          /\ AccountsWithEmail(call.atFind, call.email) # {} =>
                /\ call.error = EmailSudahTerdaftar
                /\ call.value = NoAccountSummary
                /\ call.after = call.before
          /\ call.error # NoError => call.after.users = call.before.users
          /\ call.error = NoError =>
                /\ DOMAIN call.value = {"id", "email", "username"}
                /\ call.after.users \ call.before.users =
                      {[UserRow(call.value.id, call.email, TRUE, FALSE) EXCEPT
                           !.username = call.fullName,
                           !.passwordHash = bcryptHash(call.password)]}
                /\ call.value.email = call.email
                /\ call.value.username = call.fullName
                /\ \A field \in DOMAIN call.value :
                      call.value[field] \notin {bcryptHash(call.password), call.password}

\* two clients register the same new email concurrently: both lookups find
\* no account, one insert succeeds and the other one is refused by the
\* unique column
C24_Witness ==
    \E c1, c2 \in Registered :
        /\ inFlight[c1].email = inFlight[c2].email
        /\ inFlight[c1].fullName # inFlight[c2].fullName
        /\ AccountsWithEmail(inFlight[c1].atFind, inFlight[c1].email) = {}
        /\ AccountsWithEmail(inFlight[c2].atFind, inFlight[c2].email) = {}
        /\ inFlight[c1].error = NoError
        /\ inFlight[c2].error = UniqueUserConstraintFailed
        /\ Cardinality(AccountsWithEmail(prisma, inFlight[c1].email)) = 1

(***************************************************************************)
(* Properties of AuthService.login on a database that refuses writes       *)
(* (checked under SpecAuthFaults)                                          *)
(***************************************************************************)
\* the writes to login_history fail and every other write succeeds
AuditWriteFails == failing = {"loginHistory"}

\* C25: a failure of the LoginHistory write never fails the login: while
\* only the writes to login_history fail, a login with the password of an
\* active, not suspended account returns its tokens, and a login with a
\* wrong password fails with the invalid-credentials error.
C25_AuditFailureNeverFailsLogin ==
    (LoginCalled /\ AuditWriteFails) =>
        /\ ValidLogin =>
              /\ Succeeded
              /\ lastCall.value # NoValue
        /\ WrongPassword => lastCall.error = EmailOrPasswordWrong

(***************************************************************************)
(* Properties of the token payloads (checked under SpecAuth)               *)
(***************************************************************************)
\* the access tokens login and refresh have returned
MintedAccessTokens ==
    {pair.accessToken : pair \in issued}
        \cup (IF RefreshCalled /\ Succeeded THEN {lastCall.value.accessToken} ELSE {})

\* the refresh tokens login has returned
MintedRefreshTokens == {pair.refreshToken : pair \in issued}

\* C26: every token the service mints carries its type: an access token
\* embeds type 'access' with sub, email, permissions and roles; a refresh
\* token embeds type 'refresh' with sub and email and carries neither
\* permissions nor roles.
C26_TokensCarryType ==
    /\ \A t \in MintedAccessTokens :
          /\ t.payload.type = "access"
          /\ t.payload.sub # Undefined
          /\ t.payload.email # Undefined
          /\ t.payload.permissions # UndefinedList
          /\ t.payload.roles # UndefinedList
    /\ \A t \in MintedRefreshTokens :
          /\ t.payload.type = "refresh"
          /\ t.payload.sub # Undefined
          /\ t.payload.email # Undefined
          /\ t.payload.permissions = UndefinedList
          /\ t.payload.roles = UndefinedList

(***************************************************************************)
(* Properties of PermissionsGuard: both lists declared, scope validation   *)
(* and malformed permissions (checked under Spec)                          *)
(***************************************************************************)
\* the handler declares a non-empty ALL list and a non-empty ANY list
BothListsDeclared == ~IsMissingOrEmpty(AllList) /\ ~IsMissingOrEmpty(AnyList)

\* the positions of evaluated that hold the calls made for one list
CallsFor(key) == {i \in 1..Len(evaluated) : evaluated[i].key = key}

\* C27: on a handler that is not marked to skip the check and declares both
\* an ALL list and an ANY list, every call of hasPermission for the ALL
\* list comes before every call for the ANY list; the request is allowed
\* only if every ALL entry passes and some ANY entry passes; if an ALL
\* entry does not pass, the request is denied and hasPermission is called
\* for no ANY entry, whether or not an ANY entry would pass.
C27_AllFirstThenAny ==
    (Done /\ BothListsDeclared /\ ~meta.skipCheck) =>
        /\ \A i \in CallsFor("all"), j \in CallsFor("any") : i < j
        /\ CallsFor("any") # {} =>
              /\ Cardinality(CallsFor("all")) = Len(AllList.items)
              /\ \A i \in CallsFor("all") : evaluated[i].result = "true"
        /\ outcome = Allow =>
              /\ AllListPasses
              /\ \E q \in Items(AnyList) : Passes(q)
        /\ (ReachesAllList /\ ~AllListPasses) =>
              /\ outcome \in {InsufficientPermissions, CannotAccessOthers}
              /\ CallsFor("all") # {}
              /\ CallsFor("any") = {}

\* the ALL entry is not held while the ANY entry passes: the request is
\* denied after the one call made for the ALL entry
C27_Witness ==
    /\ Done
    /\ BothListsDeclared
    /\ ReachesAllList
    /\ ~AllListPasses
    /\ \E q \in Items(AnyList) : Passes(q)
    /\ outcome = InsufficientPermissions
    /\ Len(evaluated) = 1
    /\ evaluated[1].key = "all"
    /\ evaluated[1].result = "false"

\* the scope segment of a required permission of three segments
ScopeOf(p) == SegmentAt(p, 3)

\* the scope of p asks nothing of this request: 'all', 'department', or
\* 'own' on a request with none of the parameters id, userId, employeeId,
\* resourceId
ScopeAsksNothing(p) ==
    /\ HasThreeSegments(p)
    /\ \/ ScopeOf(p) = <<"all">>
       \/ ScopeOf(p) = <<"department">>
       \/ ScopeOf(p) = <<"own">> /\ ~HasResourceId

\* C28: scope validation is permissive: for a required permission the
\* caller holds (exactly or by wildcard), the single-permission check
\* passes, and no call of it denies, when the required scope is 'all', when
\* it is 'department', or when it is 'own' and the request has none of the
\* parameters id, userId, employeeId, resourceId.
C28_ScopePermissive ==
    /\ \A n \in 1..Len(evaluated) :
          (Holds(evaluated[n].required) /\ ScopeAsksNothing(evaluated[n].required)) =>
              evaluated[n].result = "true"
    /\ \A q \in Items(AllList) \cup Items(AnyList) :
          (Authenticated /\ Holds(q) /\ ScopeAsksNothing(q)) => Passes(q)
    /\ (/\ Done /\ ReachesAllList
        /\ \A q \in Items(AllList) \cup Items(AnyList) : Holds(q) /\ ScopeAsksNothing(q))
          => outcome = Allow

\* a 'department' entry and an 'own' entry were checked on a request
\* without parameters for a caller who has an employeeId, and both passed
C28_Witness ==
    /\ Done
    /\ outcome = Allow
    /\ Len(evaluated) = 2
    /\ evaluated[1].required = EMPLOYEE_READ_DEPARTMENT
    /\ evaluated[2].required = EMPLOYEE_READ_OWN
    /\ ~HasResourceId
    /\ Caller.employeeId = "E1"
    /\ evaluated[1].result = "true"
    /\ evaluated[2].result = "true"

(***************************************************************************)
(* Properties of the life of a Session (checked under SpecAuth)            *)
(***************************************************************************)
\* the Session rows stay where they are, a revoked one stays revoked and
\* none changes its expiry
SessionsOnlyEnd ==
    /\ Len(prisma'.refreshTokens) >= Len(prisma.refreshTokens)
    /\ \A i \in 1..Len(prisma.refreshTokens) :
          /\ prisma'.refreshTokens[i].token = prisma.refreshTokens[i].token
          /\ prisma'.refreshTokens[i].expiresAt = prisma.refreshTokens[i].expiresAt
          /\ prisma.refreshTokens[i].isRevoked => prisma'.refreshTokens[i].isRevoked

\* refresh was called with the token of a stored Session at or after the
\* expiry of the Session
RefreshAtOrAfterExpiry ==
    /\ RefreshCalled
    /\ \E session \in SessionsOfToken : lastCall.at >= session.expiresAt

\* refresh was called with the token of a stored Session that was revoked
RefreshOfRevoked ==
    /\ RefreshCalled
    /\ \E session \in SessionsOfToken : session.isRevoked

\* C29: a Session is usable for refresh only while it is not revoked and
\* now < expiresAt: refresh fails when the Session is revoked and whenever
\* now >= expiresAt, the instant now = expiresAt included; no operation
\* sets isRevoked back to false or changes expiresAt.
C29_SessionUsableOnlyWhileActive ==
    /\ []((RefreshOfRevoked \/ RefreshAtOrAfterExpiry) => lastCall.error # NoError)
    /\ [][SessionsOnlyEnd]_vars

\* what holds of the life of a Session: refresh never succeeds on a revoked
\* Session nor after the expiry, and the rows only ever end
SessionEndsAreTerminal ==
    /\ [](RefreshOfRevoked => lastCall.error # NoError)
    /\ []((RefreshCalled /\ \E session \in SessionsOfToken : lastCall.at > session.expiresAt)
            => lastCall.error # NoError)
    /\ [][SessionsOnlyEnd]_vars

\* p does not have exactly three segments
Malformed(p) == ~HasThreeSegments(p)

Declared == Items(AllList) \cup Items(AnyList)

\* C30: a malformed permission never grants access: a required permission
\* that does not have exactly three segments fails the single-permission
\* check, also when the caller holds the identical string; a malformed held
\* permission matches no required permission that is another string; a
\* request that reaches a malformed entry of the ALL list, or an ANY list
\* of malformed entries only, ends with an authorization denial.
C30_MalformedNeverGrants ==
    /\ \A n \in 1..Len(evaluated) :
          Malformed(evaluated[n].required) => evaluated[n].result = "false"
    /\ \A q \in Declared : Malformed(q) => Check(q) = "false"
    /\ \A h \in Caller.permissions, q \in Declared :
          (Malformed(h) /\ q # h) => ~matchesPermission(q, h)
    /\ (/\ Done /\ ReachesAllList
        /\ \/ \E q \in Items(AllList) : Malformed(q)
           \/ Items(AnyList) # {} /\ \A q \in Items(AnyList) : Malformed(q))
          => outcome \in {InsufficientPermissions, CannotAccessOthers}

\* the caller holds the malformed string the handler requires: the entry
\* was checked, failed, and the request was denied
C30_Witness ==
    /\ Done
    /\ MalformedPermission \in Caller.permissions
    /\ Len(evaluated) = 1
    /\ evaluated[1].required = MalformedPermission
    /\ evaluated[1].result = "false"
    /\ outcome = InsufficientPermissions

(***************************************************************************)
(* Properties of PermissionsGuard: the decision as a function of the       *)
(* claims (checked under Spec)                                             *)
(***************************************************************************)
\* what the run of a list of hasPermission calls makes of the request:
\* "true" to go on, else the message of the exception thrown
ListVerdict(calls) ==
    IF LastResult(calls) = "true" THEN "true"
    ELSE IF LastResult(calls) = "false" THEN InsufficientPermissions
    ELSE LastResult(calls)

\* canActivate, lines 30-124, from the handler's metadata and the request
\* to the outcome
canActivate(m, request) ==
    LET user == request.user
        allVerdict ==
            IF IsMissingOrEmpty(m.allPermissions) THEN "true"
            ELSE ListVerdict(EveryCalls(m.allPermissions.items, user.permissions,
                                        user, request))
        anyVerdict ==
            IF IsMissingOrEmpty(m.anyPermissions) THEN "true"
            ELSE ListVerdict(SomeCalls(m.anyPermissions.items, user.permissions,
                                       user, request))
    IN
    IF m.skipCheck THEN Allow
    ELSE IF /\ IsMissingOrEmpty(m.anyPermissions)
            /\ IsMissingOrEmpty(m.allPermissions)
            /\ IsMissingOrEmpty(m.requiredRoles)
    THEN Allow
    ELSE IF ~user.present \/ Falsy(user.sub) THEN UserNotAuthenticated
    ELSE IF ~IsMissingOrEmpty(m.requiredRoles) /\ ~checkRoles(user, m.requiredRoles.items)
    THEN InsufficientRole
    ELSE IF allVerdict # "true" THEN allVerdict
    ELSE IF anyVerdict # "true" THEN anyVerdict
    ELSE Allow

\* the steps of canActivate end with the outcome of the function
StepsAgreeWithFunction == Done => outcome = canActivate(meta, httpRequest)

\* the request of the run with the permissions ps in its claims
WithPermissions(ps) == [httpRequest EXCEPT !.user.permissions = ps]

\* C31: granting more never removes access: when the guard allows the
\* request, it also allows the same request for the same handler with
\* claims that differ only in holding a superset of the permissions.
C31_GrantingMoreKeepsAccess ==
    (Done /\ outcome = Allow /\ Caller.present) =>
        \A ps \in SUBSET HeldPermissions :
            Caller.permissions \subseteq ps =>
                canActivate(meta, WithPermissions(ps)) = Allow

(***************************************************************************)
(* Properties of the tokens as credentials (checked under SpecAuth)        *)
(***************************************************************************)
\* the access tokens login has returned
LoginAccessTokens == {pair.accessToken : pair \in issued}

\* C32: a refresh token is usable only to mint an access token: presented
\* as the access credential of a request it is never accepted as an
\* authenticated user by JwtAuthGuard / JwtStrategy.validate, and an access
\* token presented to refresh never yields a new access token.
C32_TokensNotInterchangeable ==
    /\ \A t \in MintedRefreshTokens :
          /\ JwtAuthGuard(t, clock).error # NoError
          /\ ~JwtAuthGuard(t, clock).user.present
    /\ (RefreshCalled /\ lastCall.token \in LoginAccessTokens) =>
          /\ lastCall.error # NoError
          /\ lastCall.value = NoValue

\* what holds of it: refresh called with an access token fails, no row of
\* refresh_tokens holding an access token
AccessTokenNeverRefreshes ==
    (RefreshCalled /\ lastCall.token \in LoginAccessTokens) =>
        /\ lastCall.cause \in {RefreshTokenNotFound, "jwt expired"}
        /\ lastCall.value = NoValue

\* what the Reflector returns for a handler that declares the required
\* roles and nothing else
RequireRole(roles) ==
    [skipCheck |-> FALSE, anyPermissions |-> UndefinedList,
     allPermissions |-> UndefinedList, requiredRoles |-> List(roles)]

\* the request JwtAuthGuard hands on for an access token: request.user is
\* what validate returned
RequestWith(token, now) == [user |-> JwtAuthGuard(token, now).user, params |-> NoParams]

\* C33: the claims the guard evaluates are the claims of the access token:
\* for every role R embedded in an access token login returned, the token
\* passed through JwtAuthGuard while it is valid gives a user whose roles
\* contain R, and PermissionsGuard allows a handler declaring the required
\* role R.
C33_GuardSeesTokenRoles ==
    \A t \in LoginAccessTokens :
        verify(t, clock) = NoError =>
            \A k \in 1..Len(t.payload.roles.items) :
                LET R == t.payload.roles.items[k] IN
                /\ JwtAuthGuard(t, clock).error = NoError
                /\ R \in Items(JwtAuthGuard(t, clock).user.roles)
                /\ canActivate(RequireRole(<<R>>), RequestWith(t, clock)) = Allow

\* what holds of it: the permissions of the token reach the guard
GuardSeesTokenPermissions ==
    \A t \in LoginAccessTokens :
        verify(t, clock) = NoError =>
            /\ JwtAuthGuard(t, clock).error = NoError
            /\ JwtAuthGuard(t, clock).user.sub = t.payload.sub
            /\ JwtAuthGuard(t, clock).user.permissions = Items(t.payload.permissions)

(***************************************************************************)
(* Properties of AuthService.login and the Session rows on failure         *)
(* (checked under SpecAuthFaults)                                          *)
(***************************************************************************)
\* C34: login is all-or-nothing for the table refresh_tokens: when a login
\* call ends with an error, whatever step failed, the table holds the rows
\* it held before the call and no row the call created.
C34_FailedLoginLeavesNoSession ==
    (LoginCalled /\ ~Succeeded) => prisma.refreshTokens = lastCall.before.refreshTokens

\* what holds of it: a login that fails before its first write, or on the
\* write to refresh_tokens itself, leaves the table as it was
FailedBeforeSessionWriteLeavesNoSession ==
    (/\ LoginCalled /\ ~Succeeded
     /\ \/ lastCall.error # StorageError
        \/ "refreshTokens" \in failing
        \/ WrongPassword)
        => prisma.refreshTokens = lastCall.before.refreshTokens

(***************************************************************************)
(* Properties of concurrent calls of AuthService (checked under            *)
(* SpecAuthSteps)                                                          *)
(***************************************************************************)
\* the calls of login and refresh that have returned an access token
Minted ==
    {c \in Clients : /\ inFlight[c].pc = "done"
                     /\ inFlight[c].op \in {"login", "refresh"}
                     /\ inFlight[c].error = NoError}

\* the role assignments the account U1 can have
RoleStates ==
    {<<[userId |-> "U1", roleName |-> "employee"]>>,
     <<[userId |-> "U1", roleName |-> "employee"], [userId |-> "U1", roleName |-> "manager"]>>}

\* the account never has another role assignment
RoleStatesCoverRuns == prisma.userRoles \in RoleStates

\* C35: the permissions and the roles embedded in one access token are a
\* consistent snapshot: under any interleaving with changes of the role
\* assignments there is one role-assignment state of the account from
\* which both the permissions and the role names of the token are computed.
C35_ClaimsAreOneSnapshot ==
    \A c \in Minted :
        LET payload == inFlight[c].value.accessToken.payload IN
        \E assigned \in RoleStates :
            LET db == [prisma EXCEPT !.userRoles = assigned] IN
            /\ payload.permissions = List(getUserPermissions(db, payload.sub))
            /\ payload.roles = List(getUserRoles(db, payload.sub))

\* C36: no access token is minted from a Session after it was revoked:
\* under any interleaving of refresh(token) with logout(owner, token), a
\* refresh whose Session is revoked before the refresh produces its access
\* token fails instead of returning a token.
C36_NoMintAfterRevoke ==
    \A c \in Minted : inFlight[c].op = "refresh" => ~inFlight[c].revokedAtMint

(***************************************************************************)
(* Properties of AuthService.refresh and the stored state (checked under   *)
(* SpecAuth)                                                               *)
(***************************************************************************)
\* C37: refresh leaves the stored state unchanged, whether it succeeds or
\* fails: it creates no Session row, revokes none and returns no new
\* refresh token; after a successful refresh the same token refreshes
\* again, and does so until its Session is revoked or expires.
C37_RefreshFrame ==
    RefreshCalled =>
        /\ prisma = lastCall.before
        /\ lastCall.value.refreshToken = NoToken
        /\ Succeeded =>
              /\ refresh(prisma, configService, clock, lastCall.token).error = NoError
              /\ refresh(prisma, configService, clock, lastCall.token).db = prisma
              /\ \A session \in SessionsOfToken :
                    \A now \in clock..MaxClock :
                        (now < session.expiresAt) =>
                            refresh(prisma, configService, now, lastCall.token).error = NoError

\* a refresh succeeded one tick after the login that created its Session,
\* and the Session is stored as the login left it
C37_Witness ==
    /\ RefreshCalled
    /\ Succeeded
    /\ lastCall.at = 1
    /\ lastCall.token.iat = 0
    /\ \E i \in 1..Len(prisma.refreshTokens) :
          /\ prisma.refreshTokens[i].token = lastCall.token
          /\ ~prisma.refreshTokens[i].isRevoked
          /\ prisma.refreshTokens[i].expiresAt = SevenDays

=============================================================================
